---- MODULE Spec2Model ----
(***************************************************************************)
(* Model of the ERC-4337 transaction decoder: the schema registry          *)
(* (artifacts.ts: fallback ABI, artifact merge, merged-ABI cache) and the  *)
(* layered transaction decoder (decode.ts: decodeWithAbi,                  *)
(* decodeToCallSummary, decodeTransaction).                                *)
(***************************************************************************)
EXTENDS Integers, Sequences, FiniteSets, TLC

VARIABLES
    artifacts,      \* the artifacts directory: [exists, files] (files in traversal order)
    cachedAbi,      \* artifacts.ts `cachedAbi`: Null or an Abi
    cachedBytecodeSignatures,   \* artifacts.ts `cachedBytecodeSignatures`: Null or [list]
    seen,           \* the `seen` Map built by the latest loadMergedAbiFromArtifacts
    loaded,         \* the Abi returned by the latest loadMergedAbiFromArtifacts
    ret,            \* the Abi returned by the latest getMergedAbi
    codec,          \* the latest decodeWithAbi call: Null or [abi, data, r]
    contractName,   \* the latest getContractNameFromInitCode call: Null or [initCode, name]
    selCall,        \* the latest getSelectorFromAbiItem call: Null or [item, expected, sig, sel]
    inflight,       \* concurrent decodeTransaction requests: request -> [pc, base, tx, receipt,
                    \* verbose, result]; base is the directory and the caches at its start
    toCallSummary,  \* the latest decodeToCallSummary call: Null or [merged, data, out]
    op,             \* the operation that acted last
    pc,             \* decodeTransaction: "idle" or "fetching" (awaiting the RPC replies)
    settled,        \* the RPC requests of the latest call that settled, in settling order
    tx,             \* the transaction fetched by the latest decodeTransaction
    receipt,        \* its receipt, Null when the receipt request failed
    verbose,        \* its verbose flag
    result          \* the DecodeResult it resolved to

vars == <<artifacts, cachedAbi, cachedBytecodeSignatures, seen, loaded, ret, codec,
          contractName, selCall, inflight, toCallSummary, op, pc, settled, tx, receipt, verbose, result>>

\* what the registry operations leave alone
decodeVars == <<cachedBytecodeSignatures, codec, contractName, selCall, inflight, toCallSummary, pc, settled, tx, receipt,
                verbose, result>>

(***************************************************************************)
(* Bounds of the model.                                                    *)
(***************************************************************************)
MaxFiles == 2

\* nesting depth of the tuple parameters getSelectorFromAbiItem is applied to
MaxDepth == 2

\* decodeTransaction requests in flight at once
MaxRequests == 2

\* user operations in one handleOps bundle
MaxOps == 2

Null == [null |-> TRUE]

(***************************************************************************)
(* ABI items.  A parameter is [name, type, components]; an item is         *)
(* [type, name, inputs].                                                   *)
(***************************************************************************)
P(n, t) == [name |-> n, type |-> t, components |-> <<>>]

Fn(n, ins) == [type |-> "function", name |-> n, inputs |-> ins]

ERC20_ABI ==
    << Fn("transfer", <<P("to", "address"), P("amount", "uint256")>>),
       Fn("transferFrom", <<P("from", "address"), P("to", "address"), P("amount", "uint256")>>),
       Fn("approve", <<P("spender", "address"), P("amount", "uint256")>>) >>

SIMPLE_ACCOUNT_EXECUTE_ABI ==
    << Fn("execute", <<P("dest", "address"), P("value", "uint256"), P("func", "bytes")>>),
       Fn("executeBatch", <<P("dest", "address[]"), P("value", "uint256[]"), P("func", "bytes[]")>>) >>

COMMON_DEPLOY_ABI ==
    << Fn("deploy", <<P("initCode", "bytes")>>) >>

KAMI_MINT_ABI ==
    << Fn("mintFor",
          << P("recipient", "address"), P("tokenPrice", "uint256"), P("uri", "string"),
             [name |-> "mintRoyalties", type |-> "tuple[]",
              components |-> <<P("receiver", "address"), P("feeNumerator", "uint96")>>] >>) >>

FALLBACK_ABI ==
    SIMPLE_ACCOUNT_EXECUTE_ABI \o ERC20_ABI \o COMMON_DEPLOY_ABI \o KAMI_MINT_ABI

(***************************************************************************)
(* SelectorCodec.                                                          *)
(***************************************************************************)
\* t.startsWith('tuple'), over the type tags of the model
IsTupleType(t) == t \in {"tuple", "tuple[]", "tuple[][]"}

\* t.replace('tuple', '')
TupleSuffix(t) ==
    CASE t = "tuple" -> ""
      [] t = "tuple[]" -> "[]"
      [] t = "tuple[][]" -> "[][]"
      [] OTHER -> t

RECURSIVE JoinComma(_)
JoinComma(ss) ==
    IF Len(ss) = 0 THEN ""
    ELSE IF Len(ss) = 1 THEN ss[1]
    ELSE ss[1] \o "," \o JoinComma(Tail(ss))

\* mutant: the components of a tuple are joined by their type tags, unexpanded
expandAbiType_Shallow(p) ==
    IF IsTupleType(p.type)
    THEN "(" \o JoinComma([i \in 1..Len(p.components) |-> p.components[i].type])
             \o ")" \o TupleSuffix(p.type)
    ELSE p.type

RECURSIVE expandAbiType(_)
expandAbiType(p) ==
    IF IsTupleType(p.type)
    THEN "(" \o JoinComma([i \in 1..Len(p.components) |-> expandAbiType(p.components[i])])
             \o ")" \o TupleSuffix(p.type)
    ELSE p.type

\* `${item.name}(${expanded})`
computedSig(item) ==
    item.name \o "(" \o JoinComma([i \in 1..Len(item.inputs) |-> expandAbiType(item.inputs[i])]) \o ")"

\* keccak256(toBytes(sig)).slice(0, 10), tabulated over the signatures of the model
keccakSelector(sig) ==
    CASE sig = "execute(address,uint256,bytes)" -> "0xb61d27f6"
      [] sig = "executeBatch(address[],uint256[],bytes[])" -> "0x47e1da2a"
      [] sig = "transfer(address,uint256)" -> "0xa9059cbb"
      [] sig = "transferFrom(address,address,uint256)" -> "0x23b872dd"
      [] sig = "approve(address,uint256)" -> "0x095ea7b3"
      [] sig = "deploy(bytes)" -> "0x00774360"
      [] sig = "mintFor(address,uint256,string,(address,uint96)[])" -> "0x1169051d"
      [] sig = "many_msg_babbage(bytes1)" -> "0xa9059cbb"
      [] sig = "setPrice(uint256)" -> "0x91b7f5ed"
      [] sig = "setTokenURI(uint256,string)" -> "0x162094c4"
      [] sig = "burn(uint256)" -> "0x42966c68"
      [] sig = "transfer(address,uint256,bytes)" -> "0xbe45fd62"
      [] sig = "handleOps((address,uint256,bytes,bytes,bytes32,uint256,bytes32,bytes,bytes)[],address)"
            -> "0x765e827f"
      [] sig = "depositTo(address)" -> "0xb760faf9"
      [] OTHER -> "0x00000000"

getSelectorFromAbiItem(item) == keccakSelector(computedSig(item))

(***************************************************************************)
(* Hex strings.  A hex string is a sequence of runs [c, n]: the character  *)
(* c repeated n times, no run empty and no two adjacent runs of the same   *)
(* character.  The operators below are the JavaScript string operations    *)
(* the code uses, computed on that representation.                         *)
(***************************************************************************)
Run(c, n) == IF n = 0 THEN <<>> ELSE <<[c |-> c, n |-> n]>>

\* the characters "0x"
Hx0x == <<[c |-> "0", n |-> 1], [c |-> "x", n |-> 1]>>

\* a + b
HCat(a, b) ==
    IF Len(a) = 0 THEN b
    ELSE IF Len(b) = 0 THEN a
    ELSE IF a[Len(a)].c = b[1].c
         THEN SubSeq(a, 1, Len(a) - 1) \o <<[c |-> b[1].c, n |-> a[Len(a)].n + b[1].n]>> \o Tail(b)
         ELSE a \o b

\* s.length
RECURSIVE HLen(_)
HLen(h) == IF Len(h) = 0 THEN 0 ELSE h[1].n + HLen(Tail(h))

\* s.slice(k)
RECURSIVE HDrop(_, _)
HDrop(h, k) ==
    IF Len(h) = 0 \/ k = 0 THEN h
    ELSE IF h[1].n <= k THEN HDrop(Tail(h), k - h[1].n)
    ELSE <<[c |-> h[1].c, n |-> h[1].n - k]>> \o Tail(h)

\* s.slice(0, k)
RECURSIVE HTake(_, _)
HTake(h, k) ==
    IF Len(h) = 0 \/ k = 0 THEN <<>>
    ELSE IF h[1].n <= k THEN <<h[1]>> \o HTake(Tail(h), k - h[1].n)
    ELSE <<[c |-> h[1].c, n |-> k]>>

\* s.startsWith(p)
HStartsWith(h, p) == HLen(h) >= HLen(p) /\ HTake(h, HLen(p)) = p

\* the offset at which run i of h starts
RECURSIVE RunStart(_, _)
RunStart(h, i) == IF i = 1 THEN 0 ELSE RunStart(h, i - 1) + h[i - 1].n

\* s.includes(p): an occurrence of p starts where a run of s starts, or ends its
\* first run where a run of s ends
HIncludes(h, p) ==
    \/ Len(p) = 0
    \/ \E i \in 1..Len(h) :
          \/ HStartsWith(HDrop(h, RunStart(h, i)), p)
          \/ /\ RunStart(h, i) + h[i].n >= p[1].n
             /\ HStartsWith(HDrop(h, RunStart(h, i) + h[i].n - p[1].n), p)

(***************************************************************************)
(* Schema sources: the artifact JSON files the model draws from.           *)
(* A file is [name, valid, bytecode, deployedBytecode, abi, methodIds]     *)
(* (an absent bytecode is the empty string); valid = FALSE is a file whose *)
(* JSON.parse throws; NullItem is a null entry of the abi array, on which  *)
(* item.type throws.  methodIds is a sequence of [sig, id] pairs.          *)
(***************************************************************************)
NullItem == [type |-> "<null>", name |-> "", inputs |-> <<>>]

ArtKami ==
    [name |-> "KAMI721C", valid |-> TRUE,
     bytecode |-> Hx0x \o Run("k", 600), deployedBytecode |-> Hx0x \o Run("r", 400),
     abi |-> << Fn("setPrice", <<P("newPrice", "uint256")>>),
                [type |-> "event", name |-> "Transfer", inputs |-> <<>>],
                Fn("setTokenURI", <<P("tokenId", "uint256"), P("uri", "string")>>),
                Fn("deploy", <<P("code", "bytes")>>) >>,
     methodIds |-> << [sig |-> "setPrice(uint256)", id |-> "91b7f5ed"],
                      [sig |-> "setTokenURI(uint256,string)", id |-> "162094c4"],
                      [sig |-> "deploy(bytes)", id |-> "00774360"] >>]

ArtToken ==
    [name |-> "Token", valid |-> TRUE,
     bytecode |-> <<>>, deployedBytecode |-> Run("t", 100),
     abi |-> << Fn("transfer", <<P("recipient", "address"), P("value", "uint256")>>),
                Fn("many_msg_babbage", <<P("x", "bytes1")>>),
                Fn("setPrice", <<P("price", "uint256")>>),
                Fn("transfer", <<P("dst", "address"), P("wad", "uint256"), P("data", "bytes")>>) >>,
     methodIds |-> <<>>]

ArtErc20 ==
    [name |-> "IERC20", valid |-> TRUE,
     bytecode |-> <<>>, deployedBytecode |-> <<>>,
     abi |-> << Fn("approve", <<P("guy", "address"), P("wad", "uint256")>>),
                [type |-> "event", name |-> "Approval", inputs |-> <<>>],
                [type |-> "function", name |-> "", inputs |-> <<>>] >>,
     methodIds |-> <<>>]

ArtBroken ==
    [name |-> "Broken", valid |-> FALSE,
     bytecode |-> Run("b", 300), deployedBytecode |-> <<>>, abi |-> <<>>, methodIds |-> <<>>]

ArtOdd ==
    [name |-> "Odd", valid |-> TRUE,
     bytecode |-> Run("o", 255), deployedBytecode |-> Run("o", 63),
     abi |-> << Fn("transfer", <<P("dst", "address"), P("wad", "uint256")>>),
                Fn("burn", <<P("v", "uint256")>>) >>,
     methodIds |-> << [sig |-> "transfer(address,uint256)", id |-> "deadbeef"],
                      [sig |-> "burn(uint256)", id |-> "a9059cbb"] >>]

ArtPartial ==
    [name |-> "Partial", valid |-> TRUE,
     bytecode |-> Run("p", 256), deployedBytecode |-> <<>>,
     abi |-> << Fn("burn", <<P("amount", "uint256")>>),
                NullItem,
                Fn("setTokenURI", <<P("id", "uint256"), P("u", "string")>>) >>,
     methodIds |-> <<>>]

ArtifactFiles == {ArtKami, ArtToken, ArtErc20, ArtBroken, ArtOdd, ArtPartial}

(***************************************************************************)
(* SchemaRegistry: loadMergedAbiFromArtifacts and getMergedAbi.            *)
(***************************************************************************)
\* mutant: the duplicate check is missing
SeenHas_Never(s, selector) == FALSE

\* seen.has(selector)
SeenHas(s, selector) == \E i \in 1..Len(s) : s[i].key = selector

\* seen.set(selector, item) on a selector that is not present
SeenSet(s, selector, item) == Append(s, [key |-> selector, item |-> item])

\* Array.from(seen.values())
SeenValues(s) == [i \in 1..Len(s) |-> s[i].item]

addItem(s, item) ==
    IF item.type # "function" \/ item.name = "" THEN s
    ELSE LET selector == getSelectorFromAbiItem(item)
         IN IF SeenHas(s, selector) THEN s
            ELSE SeenSet(s, selector, Fn(item.name, item.inputs))

\* mutant: only the first fallback entry is seeded
SeedFallback_FirstOnly(s, items) ==
    IF Len(items) = 0 THEN s ELSE addItem(s, Head(items))

\* mutant: the fallback entries are not seeded
SeedFallback_Skip(s, items) == s

RECURSIVE SeedFallback(_, _)
SeedFallback(s, items) ==
    IF Len(items) = 0 THEN s
    ELSE SeedFallback(addItem(s, Head(items)), Tail(items))

\* methodIds[computedSig] ? `0x${methodIds[computedSig]}` : null
selectorFromIds(methodIds, sig) ==
    LET hits == {i \in 1..Len(methodIds) : methodIds[i].sig = sig /\ methodIds[i].id # ""}
    IN IF hits = {} THEN Null
       ELSE [null |-> FALSE, sel |-> "0x" \o methodIds[CHOOSE i \in hits : TRUE].id]

\* selectorFromIds ?? getSelectorFromAbiItem(item)
artifactSelector(methodIds, item) ==
    LET fromIds == selectorFromIds(methodIds, computedSig(item))
    IN IF fromIds.null THEN getSelectorFromAbiItem(item) ELSE fromIds.sel

\* mutant: a colliding item replaces the entry already stored under its selector
RECURSIVE addArtifactItems_LastWins(_, _, _)
addArtifactItems_LastWins(s, abi, methodIds) ==
    IF Len(abi) = 0 THEN s
    ELSE LET item == Head(abi)
         IN IF item = NullItem THEN s
            ELSE IF item.type # "function" \/ item.name = ""
                 THEN addArtifactItems_LastWins(s, Tail(abi), methodIds)
            ELSE LET selector == artifactSelector(methodIds, item)
                     entry == [key |-> selector, item |-> Fn(item.name, item.inputs)]
                 IN IF SeenHas(s, selector)
                    THEN addArtifactItems_LastWins(
                             [i \in 1..Len(s) |-> IF s[i].key = selector THEN entry ELSE s[i]],
                             Tail(abi), methodIds)
                    ELSE addArtifactItems_LastWins(Append(s, entry), Tail(abi), methodIds)

\* the body of `for (const item of abi)`; a null item throws and ends the file
RECURSIVE addArtifactItems(_, _, _)
addArtifactItems(s, abi, methodIds) ==
    IF Len(abi) = 0 THEN s
    ELSE LET item == Head(abi)
         IN IF item = NullItem THEN s
            ELSE IF item.type # "function" \/ item.name = ""
                 THEN addArtifactItems(s, Tail(abi), methodIds)
            ELSE LET selector == artifactSelector(methodIds, item)
                 IN IF SeenHas(s, selector)
                    THEN addArtifactItems(s, Tail(abi), methodIds)
                    ELSE addArtifactItems(SeenSet(s, selector, Fn(item.name, item.inputs)),
                                          Tail(abi), methodIds)

\* the body of `for (const filePath of jsonFiles)`; an unparsable file is skipped
RECURSIVE addArtifactFiles(_, _)
addArtifactFiles(s, files) ==
    IF Len(files) = 0 THEN s
    ELSE LET f == Head(files)
         IN IF ~f.valid THEN addArtifactFiles(s, Tail(files))
            ELSE addArtifactFiles(addArtifactItems(s, f.abi, f.methodIds), Tail(files))

\* the `seen` Map at the return of loadMergedAbiFromArtifacts (empty on the early return)
mergedSeen(dir) ==
    IF ~dir.exists THEN <<>>
    ELSE addArtifactFiles(SeedFallback(<<>>, FALLBACK_ABI), dir.files)

\* mutant: a missing directory yields an empty table
loadMergedAbiFromArtifacts_EmptyOnMissing(dir) ==
    IF ~dir.exists THEN <<>>
    ELSE SeenValues(mergedSeen(dir))

loadMergedAbiFromArtifacts(dir) ==
    IF ~dir.exists THEN FALLBACK_ABI
    ELSE SeenValues(mergedSeen(dir))

\* abi.filter((x) => x.type === 'function').length
FunctionCount(abi) == Cardinality({i \in 1..Len(abi) : abi[i].type = "function"})

FALLBACK_FUNCTION_COUNT == FunctionCount(FALLBACK_ABI)

\* what getMergedAbi returns and leaves behind, given the loaded table ld and the
\* cache value c2 after its test: [cache, ret, loaded, seen]
mergedAnswer(ld, c2, sn) ==
    [cache |-> c2, ret |-> IF c2 = Null THEN ld ELSE c2, loaded |-> ld, seen |-> sn]

\* mutant: the cache test is >= instead of >
cacheAfterLoad_AtLeast(c, ld) ==
    IF FunctionCount(ld) >= FALLBACK_FUNCTION_COUNT THEN ld ELSE c

\* if (fnCount > FALLBACK_FUNCTION_COUNT) cachedAbi = loaded
cacheAfterLoad(c, ld) ==
    IF FunctionCount(ld) > FALLBACK_FUNCTION_COUNT THEN ld ELSE c

getMergedAbiWith(c, ld, sn) == mergedAnswer(ld, cacheAfterLoad(c, ld), sn)

\* getMergedAbi on the cache value c: [cache, ret, loaded, seen]
getMergedAbi(dir, c) ==
    getMergedAbiWith(c, loadMergedAbiFromArtifacts(dir), mergedSeen(dir))

getFallbackAbi == FALLBACK_ABI

(***************************************************************************)
(* BytecodeSignatureStore and ContractIdentifier.                          *)
(***************************************************************************)
BYTECODE_SIGNATURE_LEN == 256

BYTECODE_SHORT_PREFIX_LEN == 64

SEARCH_RANGE_HEX == 16384

\* bc.startsWith('0x') ? bc.slice(2) : bc
Strip0x(h) == IF HStartsWith(h, Hx0x) THEN HDrop(h, 2) ELSE h

\* the entries one artifact file pushes: creation bytecode, then runtime bytecode
fileSignatures(f) ==
    LET bc == Strip0x(f.bytecode)
        rt == Strip0x(f.deployedBytecode)
        creation ==
            IF Len(f.bytecode) > 0 /\ HLen(bc) >= BYTECODE_SIGNATURE_LEN
            THEN << [name |-> f.name,
                     prefixHex |-> HTake(bc, BYTECODE_SIGNATURE_LEN),
                     shortPrefixHex |-> HTake(bc, BYTECODE_SHORT_PREFIX_LEN)] >>
            ELSE <<>>
        runtime ==
            IF Len(f.deployedBytecode) > 0 /\ HLen(rt) >= BYTECODE_SHORT_PREFIX_LEN
            THEN << [name |-> f.name,
                     prefixHex |-> IF HLen(rt) >= BYTECODE_SIGNATURE_LEN
                                   THEN HTake(rt, BYTECODE_SIGNATURE_LEN)
                                   ELSE HTake(rt, BYTECODE_SHORT_PREFIX_LEN),
                     shortPrefixHex |-> HTake(rt, BYTECODE_SHORT_PREFIX_LEN)] >>
            ELSE <<>>
    IN creation \o runtime

RECURSIVE allSignatures(_)
allSignatures(files) ==
    IF Len(files) = 0 THEN <<>>
    ELSE (IF Head(files).valid THEN fileSignatures(Head(files)) ELSE <<>>)
            \o allSignatures(Tail(files))

\* cachedBytecodeSignatures = out; return out
storeSignatures(out) == [cache |-> [null |-> FALSE, list |-> out], ret |-> out]

\* loadBytecodeSignatures on the cache value c: [cache, ret]
loadBytecodeSignatures(dir, c) ==
    IF c # Null THEN [cache |-> c, ret |-> c.list]
    ELSE storeSignatures(IF dir.exists THEN allSignatures(dir.files) ELSE <<>>)

\* the name at the first hit of a nested loop (outer index first), Null when none
FirstHit(hits, signatures) ==
    IF hits = {} THEN Null
    ELSE LET h == CHOOSE x \in hits :
                    \A y \in hits : x[1] < y[1] \/ (x[1] = y[1] /\ x[2] <= y[2])
         IN [null |-> FALSE, name |-> signatures[h[2]].name]

\* mutant: the substring search is not bounded to the leading window
SearchRange_Whole(h) == h

SearchRange(h) == IF HLen(h) > SEARCH_RANGE_HEX THEN HTake(h, SEARCH_RANGE_HEX) ELSE h

\* 1) exact prefix match at known offsets
exactPrefixPass(candidates, signatures) ==
    FirstHit({<<i, j>> \in (1..Len(candidates)) \X (1..Len(signatures)) :
                 /\ HLen(candidates[i]) >= BYTECODE_SIGNATURE_LEN
                 /\ HStartsWith(candidates[i], signatures[j].prefixHex)}, signatures)

\* 2) substring match in the search range of the whole input
substringPass(raw, signatures) ==
    FirstHit({<<i, j>> \in {1} \X (1..Len(signatures)) :
                 HIncludes(SearchRange(raw), signatures[j].shortPrefixHex)}, signatures)

\* 3) substring match in the search range of each candidate
candidateSubstringPass(candidates, signatures) ==
    FirstHit({<<i, j>> \in (1..Len(candidates)) \X (1..Len(signatures)) :
                 HIncludes(SearchRange(candidates[i]), signatures[j].shortPrefixHex)},
             signatures)

\* offsets.filter((off) => raw.length > off).map((off) => raw.slice(off))
initCodeCandidates(raw) ==
    LET offsets == <<0, 40, 104, 168>>
        kept == SelectSeq(offsets, LAMBDA off : HLen(raw) > off)
    IN [i \in 1..Len(kept) |-> HDrop(raw, kept[i])]

\* mutant: the substring pass over the whole input is consulted before the exact pass
firstNamed_SubstringFirst(exact, whole, perOffset) ==
    IF ~whole.null THEN whole ELSE IF ~exact.null THEN exact ELSE perOffset

\* the three passes in order: the first that returns a name
firstNamed(exact, whole, perOffset) ==
    IF ~exact.null THEN exact ELSE IF ~whole.null THEN whole ELSE perOffset

searchSignatures(raw, candidates, signatures) ==
    firstNamed(exactPrefixPass(candidates, signatures),
               substringPass(raw, signatures),
               candidateSubstringPass(candidates, signatures))

\* getContractNameFromInitCode once the signatures are loaded (ld = [cache, ret])
identify(raw, ld) ==
    [cache |-> ld.cache, name |-> searchSignatures(raw, initCodeCandidates(raw), ld.ret)]

\* mutant: no length test, and a signature matches when its prefix starts with the input
identifyAnyLength(raw, ld) ==
    [cache |-> ld.cache,
     name |-> FirstHit({<<i, j>> \in {1} \X (1..Len(ld.ret)) :
                           HStartsWith(ld.ret[j].prefixHex, raw)}, ld.ret)]

getContractNameFromInitCode_AnyLength(dir, c, initCode) ==
    identifyAnyLength(Strip0x(initCode), loadBytecodeSignatures(dir, c))

\* getContractNameFromInitCode on the signature cache c: [cache, name] (name Null when
\* undefined is returned)
getContractNameFromInitCode(dir, c, initCode) ==
    IF HLen(Strip0x(initCode)) < BYTECODE_SHORT_PREFIX_LEN THEN [cache |-> c, name |-> Null]
    ELSE identify(Strip0x(initCode), loadBytecodeSignatures(dir, c))

(***************************************************************************)
(* Decoded values, call data and display strings.                          *)
(*                                                                         *)
(* A decoded value carries its type tag t.  Call data is [sel, enc, args,  *)
(* len]: its first four bytes, the parameter type list its body is a valid *)
(* ABI encoding of ("?" when it is of none), the values it then decodes to *)
(* and its byte length.  A display string is a sequence of tokens; the     *)
(* decimal digits of a number are one token each.                          *)
(***************************************************************************)
Some(v) == [null |-> FALSE, v |-> v]

\* a request slot no decodeTransaction call has used
IdleRequest ==
    [pc |-> "idle", base |-> Null, tx |-> Null, receipt |-> Null, verbose |-> FALSE,
     result |-> Null]

Addr(a) == [t |-> "address", v |-> a]

Uint(n) == [t |-> "uint", n |-> n]

Bytes(d) == [t |-> "bytes", d |-> d]

RawBytes(h) == [t |-> "rawbytes", h |-> h]

Array(items) == [t |-> "array", items |-> items]

UserOp(sender, callData) == [t |-> "op", sender |-> sender, nonce |-> 0, callData |-> callData]

CallData(sel, enc, args, len) == [sel |-> sel, enc |-> enc, args |-> args, len |-> len]

\* '0x'
EmptyData == CallData("", "", <<>>, 0)

IsEmptyData(d) == d.len = 0

\* the parameter type list of an ABI item
TypeList(item) == JoinComma([i \in 1..Len(item.inputs) |-> expandAbiType(item.inputs[i])])

\* BigInt.prototype.toString
RECURSIVE DigitsOf(_)
DigitsOf(n) ==
    LET d == <<"0", "1", "2", "3", "4", "5", "6", "7", "8", "9">>
    IN IF n < 10 THEN <<d[n + 1]>> ELSE DigitsOf(n \div 10) \o <<d[(n % 10) + 1]>>

DigitValue(c) ==
    CASE c = "0" -> 0 [] c = "1" -> 1 [] c = "2" -> 2 [] c = "3" -> 3 [] c = "4" -> 4
      [] c = "5" -> 5 [] c = "6" -> 6 [] c = "7" -> 7 [] c = "8" -> 8 [] c = "9" -> 9
      [] OTHER -> -1

\* BigInt(str): [threw, n]; a string that is no decimal number throws SyntaxError
RECURSIVE DigitsValue(_)
DigitsValue(str) ==
    IF Len(str) = 0 THEN 0
    ELSE 10 * DigitsValue(SubSeq(str, 1, Len(str) - 1)) + DigitValue(str[Len(str)])

BigInt(str) ==
    IF \A i \in 1..Len(str) : DigitValue(str[i]) >= 0
    THEN [threw |-> FALSE, n |-> DigitsValue(str)]
    ELSE [threw |-> TRUE, n |-> 0]

RECURSIVE JoinTokens(_, _)
JoinTokens(strs, sep) ==
    IF Len(strs) = 0 THEN <<>>
    ELSE IF Len(strs) = 1 THEN strs[1]
    ELSE strs[1] \o sep \o JoinTokens(Tail(strs), sep)

\* the characters of a hex string, one token per run
HexTokens(h) == [i \in 1..Len(h) |-> h[i].c]

\* formatArg on a '0x' string of the given length: long values are truncated
formatHex(tokens, hexLen) ==
    IF hexLen > 74
    THEN <<tokens[1], "...">> \o <<tokens[Len(tokens)], " (">>
            \o DigitsOf((hexLen - 2) \div 2) \o <<" bytes)">>
    ELSE tokens

RECURSIVE formatArg(_)
formatArg(value) ==
    CASE value.t = "address" -> <<value.v>>
      [] value.t = "uint" -> DigitsOf(value.n)
      [] value.t = "bytes" ->
            formatHex(<<value.d.sel, value.d.enc>>, 2 + 2 * value.d.len)
      [] value.t = "rawbytes" -> formatHex(HexTokens(value.h), HLen(value.h))
      [] value.t = "array" ->
            <<"[">> \o JoinTokens([i \in 1..Len(value.items) |-> formatArg(value.items[i])],
                                  <<", ">>) \o <<"]">>
      [] value.t = "op" ->
            <<"{sender: ", value.sender, ", callData: ">>
                \o formatArg(Bytes(value.callData)) \o <<"}">>
      [] OTHER -> <<"?">>

(***************************************************************************)
(* CallDecoder: decodeFunctionData (viem), decodeWithAbi and               *)
(* decodeToCallSummary.  A thrown exception is [threw |-> TRUE, message].  *)
(* The registry state threaded through a decode is st = [cache, sigs]:     *)
(* cachedAbi and cachedBytecodeSignatures.                                 *)
(***************************************************************************)
Throw(message) == [threw |-> TRUE, message |-> message]

\* decoding the body of the data by the parameter list of the matched item
decodeBy(item, data) ==
    IF Len(item.inputs) > 0 /\ data.enc # TypeList(item)
    THEN Throw("AbiDecodingDataSizeTooSmallError")
    ELSE [threw |-> FALSE, functionName |-> item.name,
          args |-> IF Len(item.inputs) > 0 THEN data.args ELSE <<>>]

\* hits: the indices of the function items whose selector is the data's
decodeByFirst(abi, data, hits) ==
    IF hits = {} THEN Throw("AbiFunctionSignatureNotFoundError")
    ELSE decodeBy(abi[CHOOSE i \in hits : \A j \in hits : i <= j], data)

\* decodeFunctionData({ abi, data }): the first function item whose selector is the
\* data's first four bytes, and the data's body decoded by its parameter list
decodeFunctionData(abi, data) ==
    decodeByFirst(abi, data,
                  {i \in 1..Len(abi) :
                      abi[i].type = "function" /\ getSelectorFromAbiItem(abi[i]) = data.sel})

\* `arg${i}`
PositionalName(i) == "arg" \o ToString(i)

\* the loop filling argsRecord (i is the 0-based index of the code)
RECURSIVE fillArgsRecord(_, _, _, _)
fillArgsRecord(rec, inputs, args, i) ==
    IF i >= Len(args) THEN rec
    ELSE LET name == IF i < Len(inputs) THEN inputs[i + 1].name ELSE PositionalName(i)
         IN fillArgsRecord((name :> formatArg(args[i + 1])) @@ rec, inputs, args, i + 1)

\* the hex string handed to getContractNameFromInitCode, Null when args[0] is no string
rawInitCodeOf(args) ==
    IF Len(args) = 0 THEN Null
    ELSE CASE args[1].t = "rawbytes" -> Some(args[1].h)
           [] args[1].t = "bytes" -> Some(HCat(Hx0x, Run("c", 2 * args[1].d.len)))
           [] args[1].t = "address" -> Some(HCat(Hx0x, Run("a", 40)))
           [] OTHER -> Null

\* abi.find((x) => x.type === 'function' && x.name === functionName)?.inputs ?? []
inputsOfFirst(abi, fns) ==
    IF fns = {} THEN <<>> ELSE abi[CHOOSE i \in fns : \A j \in fns : i <= j].inputs

inputsByName(abi, functionName) ==
    inputsOfFirst(abi, {i \in 1..Len(abi) :
                           abi[i].type = "function" /\ abi[i].name = functionName})

\* contractKind: [cache, name]
identified(dir, st, rawInitCode) ==
    IF rawInitCode.null THEN [cache |-> st.sigs, name |-> Null]
    ELSE getContractNameFromInitCode(dir, st.sigs, rawInitCode.v)

\* mutant: the identified name is not attached to the returned call
decodeWithAbiReturn_NoKind(st, decoded, argsRecord, ident) ==
    [st |-> [st EXCEPT !.sigs = ident.cache],
     r |-> [threw |-> FALSE, kind |-> "call",
            function |-> decoded.functionName,
            args |-> argsRecord,
            contractKind |-> Null]]

decodeWithAbiReturn(st, decoded, argsRecord, ident) ==
    [st |-> [st EXCEPT !.sigs = ident.cache],
     r |-> [threw |-> FALSE, kind |-> "call",
            function |-> decoded.functionName,
            args |-> argsRecord,
            contractKind |-> ident.name]]

\* the try block of decodeWithAbi after decodeFunctionData
decodeWithAbiBody(dir, st, abi, decoded) ==
    IF decoded.threw THEN [st |-> st, r |-> decoded]
    ELSE decodeWithAbiReturn(st, decoded,
             fillArgsRecord(<<>>, inputsByName(abi, decoded.functionName), decoded.args, 0),
             identified(dir, st, IF decoded.functionName = "deploy"
                                 THEN rawInitCodeOf(decoded.args) ELSE Null))

\* the try block of decodeWithAbi: [st, r], r a thrown exception or the returned value
decodeWithAbiTry(dir, st, abi, data) ==
    decodeWithAbiBody(dir, st, abi, decodeFunctionData(abi, data))

\* mutant: decodeWithAbi without its catch
decodeWithAbi_NoCatch(dir, st, abi, data) == decodeWithAbiTry(dir, st, abi, data)

\* the catch block of decodeWithAbi
decodeWithAbiCatch(t) ==
    IF t.r.threw
    THEN [st |-> t.st, r |-> [threw |-> FALSE, kind |-> "error", error |-> t.r.message]]
    ELSE t

\* decodeWithAbi: [st, r], r = [kind |-> "call", ...] or [kind |-> "error", error]
decodeWithAbi(dir, st, abi, data) ==
    decodeWithAbiCatch(decodeWithAbiTry(dir, st, abi, data))

callSummaryOf(r, source, count) ==
    Some([function |-> r.function, args |-> r.args, contractKind |-> r.contractKind,
          abiSource |-> source, abiFunctionCount |-> count])

\* decodeToCallSummary after the decode with the fallback table; `tried` lists the
\* tables decodeWithAbi was called with, in call order
afterFallback(fallback, f) ==
    IF f.r.kind # "error"
    THEN [st |-> f.st, error |-> "", tried |-> <<"merged", "fallback">>,
          res |-> callSummaryOf(f.r, "fallback", FunctionCount(fallback))]
    ELSE [st |-> f.st, error |-> f.r.error, tried |-> <<"merged", "fallback">>, res |-> Null]

\* mutant: the fallback table is consulted whatever the merged decode gave
afterMerged_AlwaysFallback(dir, data, merged, m) ==
    IF decodeWithAbi(dir, m.st, getFallbackAbi, data).r.kind # "error" \/ m.r.kind = "error"
    THEN afterFallback(getFallbackAbi, decodeWithAbi(dir, m.st, getFallbackAbi, data))
    ELSE [st |-> m.st, error |-> "", tried |-> <<"merged", "fallback">>,
          res |-> callSummaryOf(m.r, "merged", FunctionCount(merged))]

\* decodeToCallSummary after the decode with the merged table
afterMerged(dir, data, merged, m) ==
    IF m.r.kind # "error"
    THEN [st |-> m.st, error |-> "", tried |-> <<"merged">>,
          res |-> callSummaryOf(m.r, "merged", FunctionCount(merged))]
    ELSE afterFallback(getFallbackAbi, decodeWithAbi(dir, m.st, getFallbackAbi, data))

\* decodeToCallSummary after getMergedAbi answered g
decodeWithMerged(dir, st, data, g) ==
    afterMerged(dir, data, g.ret,
                decodeWithAbi(dir, [st EXCEPT !.cache = g.cache], g.ret, data))

\* decodeToCallSummary: [st, res, error, tried]; res is Null or Some(call summary)
decodeToCallSummary(dir, st, data) ==
    decodeWithMerged(dir, st, data, getMergedAbi(dir, st.cache))

(***************************************************************************)
(* TransactionAnalyzer: decodeTransaction and its helpers.                 *)
(***************************************************************************)
ENTRY_POINT_07 == "0x0000000071727De22E5E9d8BAf0edAc6f37da032"

USDC == "0x833589fCD6eDb6E08f4c7C32D4f71b54bdA02913"

WETH == "0x4200000000000000000000000000000000000006"

\* String.prototype.toLowerCase, over the addresses of the model
ToLower(a) ==
    CASE a = ENTRY_POINT_07 -> "0x0000000071727de22e5e9d8baf0edac6f37da032"
      [] a = USDC -> "0x833589fcd6edb6e08f4c7c32d4f71b54bda02913"
      [] OTHER -> a

\* KNOWN_TOKENS[key]
KNOWN_TOKENS(key) ==
    CASE key = "0x833589fcd6edb6e08f4c7c32d4f71b54bda02913" -> Some([symbol |-> "USDC", decimals |-> 6])
      [] key = "0x4200000000000000000000000000000000000006" -> Some([symbol |-> "WETH", decimals |-> 18])
      [] OTHER -> Null

\* the decode.ts copy of the execute / executeBatch ABI
EXECUTE_ABI == SIMPLE_ACCOUNT_EXECUTE_ABI

\* entryPoint07Abi (viem): handleOps and one of its other functions
ENTRY_POINT_ABI ==
    << Fn("handleOps",
          << [name |-> "ops", type |-> "tuple[]",
              components |-> << P("sender", "address"), P("nonce", "uint256"),
                                P("initCode", "bytes"), P("callData", "bytes"),
                                P("accountGasLimits", "bytes32"),
                                P("preVerificationGas", "uint256"), P("gasFees", "bytes32"),
                                P("paymasterAndData", "bytes"), P("signature", "bytes") >>],
             P("beneficiary", "address") >>),
       Fn("depositTo", <<P("account", "address")>>) >>

\* display.padStart(n, '0')
RECURSIVE PadStart(_, _)
PadStart(str, n) == IF Len(str) >= n THEN str ELSE PadStart(<<"0">> \o str, n)

\* fraction.replace(/(0+)$/, '')
RECURSIVE StripTrailingZeros(_)
StripTrailingZeros(str) ==
    IF Len(str) > 0 /\ str[Len(str)] = "0"
    THEN StripTrailingZeros(SubSeq(str, 1, Len(str) - 1))
    ELSE str

joinUnits(integer, fraction) ==
    (IF Len(integer) = 0 THEN <<"0">> ELSE integer)
       \o (IF Len(fraction) = 0 THEN <<>> ELSE <<".">> \o fraction)

splitUnits(display, decimals) ==
    joinUnits(SubSeq(display, 1, Len(display) - decimals),
              StripTrailingZeros(SubSeq(display, Len(display) - decimals + 1, Len(display))))

\* formatUnits (viem) on a non-negative value
formatUnits(value, decimals) ==
    splitUnits(PadStart(DigitsOf(value), decimals), decimals)

formatKnown(known, rawAmount) ==
    IF ~known.null
    THEN formatUnits(rawAmount, known.v.decimals) \o <<" ", known.v.symbol>>
    ELSE DigitsOf(rawAmount) \o <<" (unknown token)">>

\* mutant: the table is consulted with the address as given, not lower-cased
formatTokenAmount_AsGiven(token, rawAmount) ==
    formatKnown(KNOWN_TOKENS(token), rawAmount)

formatTokenAmount(token, rawAmount) ==
    formatKnown(KNOWN_TOKENS(ToLower(token)), rawAmount)

displayFunctionForCall(fn, contractKind) ==
    IF fn = "deploy" /\ ~contractKind.null THEN <<"deploy (", contractKind.name, ")">>
    ELSE <<fn>>

\* `${func.slice(0, 10)}... (unknown)`
unknownCall(func, dest) ==
    [function |-> <<func.sel, "... (unknown)">>, target |-> dest, args |-> <<>>]

\* decoded.args.to ?? decoded.args['to']
ArgOf(args, k) == IF k \in DOMAIN args THEN Some(args[k]) ELSE Null

\* truthiness of an optional display string
Truthy(o) == ~o.null /\ Len(o.v) > 0

\* summary = { amount: formatTokenAmount(dest, BigInt(amount)), from, beneficiary }
summaryOf(from, n, dest, beneficiary) ==
    IF n.threw THEN [threw |-> TRUE, summary |-> Null]
    ELSE [threw |-> FALSE,
          summary |-> Some([amount |-> formatTokenAmount(dest, n.n),
                            from |-> IF from.null THEN <<>> ELSE from.v,
                            beneficiary |-> beneficiary])]

\* if (to && amount) summary = ...
summaryFrom(to, amount, from, dest, beneficiary) ==
    IF ~(Truthy(to) /\ Truthy(amount)) THEN [threw |-> FALSE, summary |-> Null]
    ELSE summaryOf(from, BigInt(amount.v), dest, beneficiary)

\* the summary block shared by the four branches: [threw, summary]; summary is Null
\* when the block assigns nothing
transferSummary(decoded, dest, sender, beneficiary) ==
    IF decoded.function \notin {"transfer", "transferFrom"}
    THEN [threw |-> FALSE, summary |-> Null]
    ELSE summaryFrom(ArgOf(decoded.args, "to"), ArgOf(decoded.args, "amount"),
                     IF decoded.function = "transferFrom"
                     THEN ArgOf(decoded.args, "from") ELSE Some(<<sender>>),
                     dest, beneficiary)

\* abiUsed as set by `if (!abiUsed && decoded.abiSource)`
abiUsedAfter(abiUsed, decoded) ==
    IF abiUsed.null
    THEN Some([source |-> decoded.abiSource, functionCount |-> decoded.abiFunctionCount])
    ELSE abiUsed

callOf(decoded, dest) ==
    [function |-> displayFunctionForCall(decoded.function, decoded.contractKind),
     target |-> dest, args |-> decoded.args]

\* the verbose log: a line is recorded by its leading words
Log(vb, lines, more) == IF vb THEN lines \o more ELSE lines

underHeader(header, content) == IF Len(content) > 0 THEN header \o content ELSE header

\* formatAbiUsedLine and withVerboseHeader
withVerboseHeader(content, abiUsed) ==
    underHeader(<<"Artifacts dir: ">> \o
                   (IF abiUsed.null THEN <<>>
                    ELSE IF abiUsed.v.source = "merged"
                         THEN <<"ABI: merged (">> \o DigitsOf(abiUsed.v.functionCount)
                                 \o <<" functions)">>
                         ELSE <<"ABI: fallback only (">> \o DigitsOf(abiUsed.v.functionCount)
                                 \o <<" functions)">>),
                content)

prependGasLine(gasUsed, gasPriceGwei, verboseText) ==
    IF gasUsed.null /\ gasPriceGwei.null THEN verboseText
    ELSE (IF gasUsed.null THEN <<>> ELSE <<"Gas used: ">> \o gasUsed.v)
            \o (IF gasPriceGwei.null THEN <<>> ELSE <<"Gas price: ">> \o gasPriceGwei.v \o <<" Gwei">>)
            \o verboseText

\* tryDecodeInnerCall: its effect on the registry state (its string goes to the log)
tryDecodeInnerCall(dir, st) == [st EXCEPT !.cache = getMergedAbi(dir, st.cache).cache]

\* abiUsed as the direct branches build it from one decoded call
abiUsedOf(decoded) ==
    Some([source |-> decoded.abiSource, functionCount |-> decoded.abiFunctionCount])

VerboseOutput(vb, gasUsed, gasPriceGwei, verboseLines, abiUsed) ==
    IF vb THEN Some(prependGasLine(gasUsed, gasPriceGwei, withVerboseHeader(verboseLines, abiUsed)))
    ELSE Null

\* the summary block's outcome applied to the accumulator a1: [acc, threw]
withSummary(a1, ts) ==
    IF ts.threw THEN [acc |-> a1, threw |-> TRUE]
    ELSE IF ts.summary.null THEN [acc |-> a1, threw |-> FALSE]
    ELSE [acc |-> [a1 EXCEPT !.summary = ts.summary], threw |-> FALSE]

\* calls.push of a decoded call, abiUsed and the verbose line
pushDecoded(acc, st1, decoded, dest, vb, line) ==
    [st |-> st1,
     calls |-> Append(acc.calls, callOf(decoded, dest)),
     summary |-> acc.summary,
     abiUsed |-> abiUsedAfter(acc.abiUsed, decoded),
     lines |-> Log(vb, acc.lines, line)]

\* calls.push of the placeholder of an undecodable call
pushUnknown(acc, st1, func, dest, vb, line) ==
    [acc EXCEPT !.st = st1,
                !.calls = Append(acc.calls, unknownCall(func, dest)),
                !.lines = Log(vb, acc.lines, line)]

\* handleOps, execute branch, after decodeToCallSummary answered d: the summary is
\* assigned whenever the call is transfer-shaped
executeInner(acc, userOp, dest, func, beneficiary, vb, d) ==
    IF ~d.res.null
    THEN withSummary(pushDecoded(acc, d.st, d.res.v, dest, vb, <<"Inner call: ">>),
                     transferSummary(d.res.v, dest, userOp.sender, beneficiary))
    ELSE [acc |-> pushUnknown(acc, d.st, func, dest, vb, <<"Inner call: ", "unknown">>),
          threw |-> FALSE]

\* handleOps, execute branch: [acc, threw] with acc = [st, calls, summary, abiUsed, lines]
handleOpsExecute(dir, acc, userOp, dest, func, beneficiary, vb) ==
    IF IsEmptyData(func)
    THEN [acc |-> [acc EXCEPT !.lines = Log(vb, acc.lines, <<"Execute -> ", "Value: ">>)],
          threw |-> FALSE]
    ELSE executeInner([acc EXCEPT !.lines = Log(vb, acc.lines, <<"Execute -> ", "Value: ">>)],
                      userOp, dest, func, beneficiary, vb,
                      decodeToCallSummary(dir, acc.st, func))

\* the summary block under `!summary &&`
guardedSummary(acc, decoded, dest, sender, beneficiary) ==
    IF acc.summary.null THEN transferSummary(decoded, dest, sender, beneficiary)
    ELSE [threw |-> FALSE, summary |-> Null]

\* handleOps, executeBatch branch, one element after decodeToCallSummary answered d
batchInner(dir, acc, userOp, dest, func, beneficiary, vb, d) ==
    IF ~d.res.null
    THEN withSummary(pushDecoded(acc, d.st, d.res.v, dest, vb, <<"decoded">>),
                     guardedSummary(acc, d.res.v, dest, userOp.sender, beneficiary))
    ELSE [acc |-> pushUnknown(acc, IF vb THEN tryDecodeInnerCall(dir, d.st) ELSE d.st,
                              func, dest, vb, <<"unknown">>),
          threw |-> FALSE]

\* the loop goes on to element j + 1 unless element j threw
RECURSIVE handleOpsBatch(_, _, _, _, _, _, _, _, _)
batchAfter(dir, r, userOp, dests, values, funcs, j, beneficiary, vb) ==
    IF r.threw THEN r
    ELSE handleOpsBatch(dir, r.acc, userOp, dests, values, funcs, j + 1, beneficiary, vb)

\* handleOps, executeBatch branch, from element j (0-based) on: [acc, threw]
handleOpsBatch(dir, acc, userOp, dests, values, funcs, j, beneficiary, vb) ==
    IF j >= Len(dests) THEN [acc |-> acc, threw |-> FALSE]
    ELSE IF vb /\ j >= Len(values) THEN [acc |-> acc, threw |-> TRUE]
    ELSE IF j >= Len(funcs) \/ IsEmptyData(funcs[j + 1].d)
    THEN handleOpsBatch(dir, [acc EXCEPT !.lines = Log(vb, acc.lines, <<"[j] -> ">>)],
                        userOp, dests, values, funcs, j + 1, beneficiary, vb)
    ELSE batchAfter(dir,
                    batchInner(dir, [acc EXCEPT !.lines = Log(vb, acc.lines, <<"[j] -> ">>)],
                               userOp, dests[j + 1].v, funcs[j + 1].d, beneficiary, vb,
                               decodeToCallSummary(dir, acc.st, funcs[j + 1].d)),
                    userOp, dests, values, funcs, j, beneficiary, vb)

\* the try block of one user operation: [acc, threw]
classifyUserOp(dir, acc0, userOp, beneficiary, vb, innerDecoded) ==
    IF innerDecoded.threw THEN [acc |-> acc0, threw |-> TRUE]
    ELSE IF innerDecoded.functionName = "execute"
    THEN handleOpsExecute(dir, acc0, userOp, innerDecoded.args[1].v,
                          innerDecoded.args[3].d, beneficiary, vb)
    ELSE IF innerDecoded.functionName = "executeBatch"
    THEN handleOpsBatch(dir,
             [acc0 EXCEPT !.lines = Log(vb, acc0.lines, <<"ExecuteBatch: ">>)],
             userOp, innerDecoded.args[1].items, innerDecoded.args[2].items,
             innerDecoded.args[3].items, 0, beneficiary, vb)
    ELSE [acc |-> acc0, threw |-> FALSE]

\* the catch block of one user operation: it only logs
userOpCatch(r, vb) ==
    IF r.threw THEN [r.acc EXCEPT !.lines = Log(vb, r.acc.lines, <<"Call data: ">>)]
    ELSE r.acc

\* the body of the loop over user operations, its try / catch included
processUserOp(dir, acc, userOp, beneficiary, vb) ==
    IF IsEmptyData(userOp.callData)
    THEN [acc EXCEPT !.lines = Log(vb, acc.lines, <<"UserOp #", "Sender", "Nonce">>)]
    ELSE userOpCatch(classifyUserOp(dir,
                        [acc EXCEPT !.lines = Log(vb, acc.lines, <<"UserOp #", "Sender", "Nonce">>)],
                        userOp, beneficiary, vb,
                        decodeFunctionData(EXECUTE_ABI, userOp.callData)),
                     vb)

RECURSIVE processUserOps(_, _, _, _, _)
processUserOps(dir, acc, ops, beneficiary, vb) ==
    IF Len(ops) = 0 THEN acc
    ELSE processUserOps(dir, processUserOp(dir, acc, Head(ops), beneficiary, vb),
                        Tail(ops), beneficiary, vb)

\* a DecodeResult; absent fields are Null
Result(success, calls, summary, verboseOutput, abiUsed, gasUsed, gasPriceGwei, error) ==
    [success |-> success, calls |-> calls, summary |-> summary,
     verboseOutput |-> verboseOutput, abiUsed |-> abiUsed, gasUsed |-> gasUsed,
     gasPriceGwei |-> gasPriceGwei, error |-> error]

\* the return of the handleOps branch: [st, result]
handleOpsReturn(acc, vb, gasUsed, gasPriceGwei) ==
    [st |-> acc.st,
     result |-> Result(TRUE,
                       IF Len(acc.calls) > 0 THEN Some(acc.calls) ELSE Null,
                       acc.summary,
                       VerboseOutput(vb, gasUsed, gasPriceGwei, acc.lines, acc.abiUsed),
                       acc.abiUsed, gasUsed, gasPriceGwei, Null)]

\* the handleOps branch: [st, result]
handleOpsBranch(dir, st, ops, beneficiary, vb, gasUsed, gasPriceGwei) ==
    handleOpsReturn(processUserOps(dir,
                        [st |-> st, calls |-> <<>>, summary |-> Null, abiUsed |-> Null,
                         lines |-> Log(vb, <<>>, <<"Account Abstraction Transaction",
                                                   "Function: handleOps", "Beneficiary: ",
                                                   "User Operations: ">>)],
                        ops, beneficiary, vb),
                    vb, gasUsed, gasPriceGwei)

\* an outcome of a part of the direct path: it returned a result, threw, or fell through
Returned(st, r) == [st |-> st, kind |-> "return", result |-> r]

Thrown(st) == [st |-> st, kind |-> "throw", result |-> Null]

FellThrough(st) == [st |-> st, kind |-> "fall", result |-> Null]

directExecuteKnown(st1, inner, dest, abiUsed, ts, vb, gasUsed, gasPriceGwei) ==
    IF ts.threw THEN Thrown(st1)
    ELSE Returned(st1,
            Result(TRUE, Some(<<callOf(inner, dest)>>), ts.summary,
                   VerboseOutput(vb, gasUsed, gasPriceGwei,
                                 <<"Direct execute to ", "Inner: ", "Target: ", "Args: ">>,
                                 abiUsed),
                   abiUsed, gasUsed, gasPriceGwei, Null))

abiUsedForUnknown(count) ==
    Some([source |-> IF count <= 7 THEN "fallback" ELSE "merged", functionCount |-> count])

directExecuteUnknown(st1, decodeError, g, dest, func, vb, gasUsed, gasPriceGwei) ==
    Returned([st1 EXCEPT !.cache = g.cache],
        Result(TRUE, Some(<<unknownCall(func, dest)>>), Null,
               VerboseOutput(vb, gasUsed, gasPriceGwei,
                             <<"Direct execute to ", "Inner call: ", func.sel, "... (unknown)">>
                                \o (IF decodeError # "" THEN <<"Decode error: ", decodeError>>
                                    ELSE <<>>),
                             abiUsedForUnknown(FunctionCount(g.ret))),
               Null, gasUsed, gasPriceGwei, Null))

\* direct path, execute branch, after decodeToCallSummary answered d
directExecuteInner(dir, t, dest, func, vb, gasUsed, gasPriceGwei, d) ==
    IF ~d.res.null
    THEN directExecuteKnown(d.st, d.res.v, dest, abiUsedOf(d.res.v),
                            transferSummary(d.res.v, dest, t.from, t.from),
                            vb, gasUsed, gasPriceGwei)
    ELSE directExecuteUnknown(d.st, d.error, getMergedAbi(dir, d.st.cache), dest, func,
                              vb, gasUsed, gasPriceGwei)

\* direct path, execute branch
directExecute(dir, st, t, dest, func, vb, gasUsed, gasPriceGwei) ==
    IF IsEmptyData(func) THEN FellThrough(st)
    ELSE directExecuteInner(dir, t, dest, func, vb, gasUsed, gasPriceGwei,
                            decodeToCallSummary(dir, st, func))

\* direct path, executeBatch branch, one element after decodeToCallSummary answered d
directBatchInner(acc, t, dest, func, d) ==
    IF ~d.res.null
    THEN withSummary(pushDecoded(acc, d.st, d.res.v, dest, FALSE, <<>>),
                     guardedSummary(acc, d.res.v, dest, t.from, t.from))
    ELSE [acc |-> pushUnknown(acc, d.st, func, dest, FALSE, <<>>), threw |-> FALSE]

RECURSIVE directBatchLoop(_, _, _, _, _, _)
directBatchAfter(dir, r, t, dests, funcs, j) ==
    IF r.threw THEN r ELSE directBatchLoop(dir, r.acc, t, dests, funcs, j + 1)

\* direct path, the loop of the executeBatch branch from element j (0-based) on:
\* [acc, threw] with acc = [st, calls, summary, abiUsed, lines]
directBatchLoop(dir, acc, t, dests, funcs, j) ==
    IF j >= Len(dests) THEN [acc |-> acc, threw |-> FALSE]
    ELSE IF j >= Len(funcs) \/ IsEmptyData(funcs[j + 1].d)
    THEN directBatchLoop(dir, acc, t, dests, funcs, j + 1)
    ELSE directBatchAfter(dir,
                          directBatchInner(acc, t, dests[j + 1].v, funcs[j + 1].d,
                                           decodeToCallSummary(dir, acc.st, funcs[j + 1].d)),
                          t, dests, funcs, j)

directBatchReturn(r, vb, gasUsed, gasPriceGwei) ==
    IF r.threw THEN Thrown(r.acc.st)
    ELSE IF Len(r.acc.calls) > 0
    THEN Returned(r.acc.st,
            Result(TRUE, Some(r.acc.calls), r.acc.summary,
                   VerboseOutput(vb, gasUsed, gasPriceGwei,
                                 <<"Direct executeBatch to ">>, r.acc.abiUsed),
                   r.acc.abiUsed, gasUsed, gasPriceGwei, Null))
    ELSE FellThrough(r.acc.st)

directExecuteBatch(dir, st, t, dests, funcs, vb, gasUsed, gasPriceGwei) ==
    directBatchReturn(directBatchLoop(dir, [st |-> st, calls |-> <<>>, summary |-> Null,
                                            abiUsed |-> Null, lines |-> <<>>],
                                      t, dests, funcs, 0),
                      vb, gasUsed, gasPriceGwei)

directClassified(dir, st, t, vb, gasUsed, gasPriceGwei, outerDecoded) ==
    IF outerDecoded.threw THEN Thrown(st)
    ELSE IF outerDecoded.functionName = "execute"
    THEN directExecute(dir, st, t, outerDecoded.args[1].v, outerDecoded.args[3].d,
                       vb, gasUsed, gasPriceGwei)
    ELSE IF outerDecoded.functionName = "executeBatch"
    THEN directExecuteBatch(dir, st, t, outerDecoded.args[1].items,
                            outerDecoded.args[3].items, vb, gasUsed, gasPriceGwei)
    ELSE FellThrough(st)

\* the try block of the direct path
directTry(dir, st, t, vb, gasUsed, gasPriceGwei) ==
    directClassified(dir, st, t, vb, gasUsed, gasPriceGwei,
                     decodeFunctionData(SIMPLE_ACCOUNT_EXECUTE_ABI, t.input))

genericKnown(st1, decoded, abiUsed, t, vb, gasUsed, gasPriceGwei) ==
    Returned(st1,
        Result(TRUE, Some(<<callOf(decoded, t.to)>>), Null,
               VerboseOutput(vb, gasUsed, gasPriceGwei,
                             <<"Direct call to ", "Function: ", "Args: ">>, abiUsed),
               abiUsed, gasUsed, gasPriceGwei, Null))

genericReturn(t, vb, gasUsed, gasPriceGwei, d) ==
    IF ~d.res.null
    THEN genericKnown(d.st, d.res.v, abiUsedOf(d.res.v), t, vb, gasUsed, gasPriceGwei)
    ELSE FellThrough(d.st)

\* generic direct call (not execute / executeBatch)
genericDirect(dir, st, t, vb, gasUsed, gasPriceGwei) ==
    genericReturn(t, vb, gasUsed, gasPriceGwei, decodeToCallSummary(dir, st, t.input))

CouldNotDecode == Result(FALSE, Null, Null, Null, Null, Null, Null,
                         Some("Could not decode transaction."))

\* the final return
orCouldNotDecode(g) == IF g.kind = "return" THEN g ELSE Returned(g.st, CouldNotDecode)

\* after the try / catch around the execute / executeBatch classification
afterDirectTry(dir, t, vb, gasUsed, gasPriceGwei, a) ==
    IF a.kind = "return" THEN a
    ELSE orCouldNotDecode(genericDirect(dir, a.st, t, vb, gasUsed, gasPriceGwei))

\* the direct transaction path and the final return
directPath(dir, st, t, vb, gasUsed, gasPriceGwei) ==
    IF t.to = "" THEN Returned(st, CouldNotDecode)
    ELSE afterDirectTry(dir, t, vb, gasUsed, gasPriceGwei,
                        directTry(dir, st, t, vb, gasUsed, gasPriceGwei))

NoMessage(o) == o @@ [message |-> ""]

bundleReturn(h) == NoMessage(Returned(h.st, h.result))

\* the entry-point branch after decodeFunctionData({ abi: entryPoint07Abi, ... })
entryPointBranch(dir, st, t, vb, gasUsed, gasPriceGwei, decoded) ==
    IF decoded.threw THEN Thrown(st) @@ [message |-> decoded.message]
    ELSE IF decoded.functionName = "handleOps"
    THEN bundleReturn(handleOpsBranch(dir, st, decoded.args[1].items, decoded.args[2].v,
                                      vb, gasUsed, gasPriceGwei))
    ELSE NoMessage(directPath(dir, st, t, vb, gasUsed, gasPriceGwei))

\* mutant: the entry-point test comes before the no-data test
classifyTransaction_EntryPointFirst(dir, st, t, vb, gasUsed, gasPriceGwei) ==
    IF t.to # "" /\ ToLower(t.to) = ToLower(ENTRY_POINT_07)
    THEN entryPointBranch(dir, st, t, vb, gasUsed, gasPriceGwei,
                          decodeFunctionData(ENTRY_POINT_ABI, t.input))
    ELSE IF IsEmptyData(t.input)
    THEN NoMessage(Returned(st, Result(FALSE, Null, Null, Null, Null, Null, Null,
                                Some("This is a simple ETH transfer with no data."))))
    ELSE NoMessage(directPath(dir, st, t, vb, gasUsed, gasPriceGwei))

\* decodeTransaction from `if (!tx.input || tx.input === '0x')` on
classifyTransaction(dir, st, t, vb, gasUsed, gasPriceGwei) ==
    IF IsEmptyData(t.input)
    THEN NoMessage(Returned(st, Result(FALSE, Null, Null, Null, Null, Null, Null,
                                Some("This is a simple ETH transfer with no data."))))
    ELSE IF t.to # "" /\ ToLower(t.to) = ToLower(ENTRY_POINT_07)
    THEN entryPointBranch(dir, st, t, vb, gasUsed, gasPriceGwei,
                          decodeFunctionData(ENTRY_POINT_ABI, t.input))
    ELSE NoMessage(directPath(dir, st, t, vb, gasUsed, gasPriceGwei))

\* the try block of decodeTransaction once the transaction and its receipt are fetched:
\* [st, kind, result, message]
decodeTransactionTry(dir, st, t, rc, vb) ==
    classifyTransaction(dir, st, t, vb,
        IF rc.null THEN Null ELSE Some(DigitsOf(rc.v.gasUsed)),
        IF ~rc.null THEN Some(formatUnits(rc.v.effectiveGasPrice, 9))
        ELSE IF ~t.gasPrice.null THEN Some(formatUnits(t.gasPrice.v, 9))
        ELSE Null)

\* mutant: no outer catch, an escaping exception rejects the promise (no result)
decodeTransactionCatch_Rethrow(r) ==
    [st |-> r.st, result |-> r.result]

\* the outer catch
decodeTransactionCatch(r) ==
    IF r.kind = "throw"
    THEN [st |-> r.st,
          result |-> Result(FALSE, Null, Null, Null, Null, Null, Null, Some(r.message))]
    ELSE [st |-> r.st, result |-> r.result]

\* decodeTransaction after the fetch, its outer catch included: [st, result]
decodeTransaction(dir, st, t, rc, vb) ==
    decodeTransactionCatch(decodeTransactionTry(dir, st, t, rc, vb))

(***************************************************************************)
(* The artifacts directory as the environment changes it.                  *)
(***************************************************************************)
NoDir == [exists |-> FALSE, files |-> <<>>]

InsertAt(seq, pos, f) == SubSeq(seq, 1, pos - 1) \o <<f>> \o SubSeq(seq, pos, Len(seq))

RemoveAt(seq, pos) == SubSeq(seq, 1, pos - 1) \o SubSeq(seq, pos + 1, Len(seq))

FileSet(dir) == {dir.files[i] : i \in 1..Len(dir.files)}

Cleared ==
    /\ seen' = <<>>
    /\ loaded' = Null
    /\ ret' = Null

CreateDir ==
    /\ ~artifacts.exists
    /\ artifacts' = [exists |-> TRUE, files |-> <<>>]
    /\ op' = "env"
    /\ Cleared
    /\ UNCHANGED <<cachedAbi, decodeVars>>

RemoveDir ==
    /\ artifacts.exists
    /\ artifacts' = NoDir
    /\ op' = "env"
    /\ Cleared
    /\ UNCHANGED <<cachedAbi, decodeVars>>

AddFile ==
    /\ artifacts.exists
    /\ Len(artifacts.files) < MaxFiles
    /\ \E f \in ArtifactFiles \ FileSet(artifacts) :
         \E pos \in 1..(Len(artifacts.files) + 1) :
            artifacts' = [artifacts EXCEPT !.files = InsertAt(artifacts.files, pos, f)]
    /\ op' = "env"
    /\ Cleared
    /\ UNCHANGED <<cachedAbi, decodeVars>>

RemoveFile ==
    /\ artifacts.exists
    /\ \E pos \in 1..Len(artifacts.files) :
         artifacts' = [artifacts EXCEPT !.files = RemoveAt(artifacts.files, pos)]
    /\ op' = "env"
    /\ Cleared
    /\ UNCHANGED <<cachedAbi, decodeVars>>

CallGetMergedAbi ==
    /\ \E r \in {getMergedAbi(artifacts, cachedAbi)} :
          /\ cachedAbi' = r.cache
          /\ ret' = r.ret
          /\ loaded' = r.loaded
          /\ seen' = r.seen
    /\ op' = "getMergedAbi"
    /\ UNCHANGED <<artifacts, decodeVars>>

Init ==
    /\ artifacts = NoDir
    /\ cachedAbi = Null
    /\ seen = <<>>
    /\ loaded = Null
    /\ ret = Null
    /\ op = "init"
    /\ cachedBytecodeSignatures = Null
    /\ codec = Null
    /\ contractName = Null
    /\ selCall = Null
    /\ inflight = [r \in 1..MaxRequests |-> IdleRequest]
    /\ toCallSummary = Null
    /\ settled = <<>>
    /\ pc = "idle"
    /\ tx = Null
    /\ receipt = Null
    /\ verbose = FALSE
    /\ result = Null

Next ==
    \/ CreateDir
    \/ RemoveDir
    \/ AddFile
    \/ RemoveFile
    \/ CallGetMergedAbi

Spec == Init /\ [][Next]_vars

(***************************************************************************)
(* The transactions the RPC node answers with, and the decode operations.  *)
(***************************************************************************)
ACCOUNT1 == "0xaccount1"

ACCOUNT2 == "0xaccount2"

BUNDLER == "0xbundler"

EOA == "0xeoa"

TOKEN == "0xtoken"

FACTORY == "0xfactory"

\* the byte length of call data with the given head words and one dynamic tail
EncLen(words, tail) == 4 + 32 * words + 32 * ((tail + 31) \div 32)

transfer5 ==
    CallData("0xa9059cbb", "address,uint256", <<Addr("0xalice"), Uint(5)>>, 68)

transferFromUsdc ==
    CallData("0x23b872dd", "address,address,uint256",
             <<Addr("0xalice"), Addr("0xbob"), Uint(1500000)>>, 100)

\* transferFrom(0xalice, 0xbob, 1000000): one whole unit of a 6-decimal token
transferFromOneUsdc ==
    CallData("0x23b872dd", "address,address,uint256",
             <<Addr("0xalice"), Addr("0xbob"), Uint(1000000)>>, 100)

\* a selector no table of the model has
unknownData == CallData("0xdeadbeef", "?", <<>>, 36)

\* the transfer selector followed by one byte
malformedTransfer == CallData("0xa9059cbb", "?", <<>>, 5)

\* transfer(address,uint256,bytes): the three-parameter overload of ArtToken
transferWithData ==
    CallData("0xbe45fd62", "address,uint256,bytes",
             <<Addr("0xalice"), Uint(5), RawBytes(HCat(Hx0x, Run("d", 4)))>>, EncLen(4, 2))

setPriceData == CallData("0x91b7f5ed", "uint256", <<Uint(42)>>, 36)

depositToData == CallData("0xb760faf9", "address", <<Addr(ACCOUNT1)>>, 36)

\* deploy(initCode) with the creation code of ArtKami
deployKami ==
    CallData("0x00774360", "bytes", <<RawBytes(HCat(Hx0x, Run("k", 600)))>>, EncLen(2, 300))

\* deploy(initCode) with a 20-byte factory address followed by that creation code
deployViaFactory ==
    CallData("0x00774360", "bytes",
             <<RawBytes(HCat(Hx0x, HCat(Run("f", 40), Run("k", 600))))>>, EncLen(2, 320))

Execute(dest, func) ==
    CallData("0xb61d27f6", "address,uint256,bytes", <<Addr(dest), Uint(0), Bytes(func)>>,
             EncLen(4, func.len))

ExecuteBatch(dests, values, funcs) ==
    CallData("0x47e1da2a", "address[],uint256[],bytes[]",
             << Array([i \in 1..Len(dests) |-> Addr(dests[i])]),
                Array([i \in 1..Len(values) |-> Uint(values[i])]),
                Array([i \in 1..Len(funcs) |-> Bytes(funcs[i])]) >>,
             EncLen(6 + Len(dests) + Len(values) + 4 * Len(funcs), 0))

HandleOps(ops, beneficiary) ==
    CallData("0x765e827f", TypeList(ENTRY_POINT_ABI[1]), <<Array(ops), Addr(beneficiary)>>,
             EncLen(3 + 12 * Len(ops), 0))

UserOpChoices ==
    << UserOp(ACCOUNT1, Execute(TOKEN, transfer5)),
       UserOp(ACCOUNT2, Execute(USDC, transferFromUsdc)),
       UserOp(ACCOUNT1, Execute(TOKEN, unknownData)),
       UserOp(ACCOUNT1, Execute(TOKEN, setPriceData)),
       UserOp(ACCOUNT1, Execute(FACTORY, deployKami)),
       UserOp(ACCOUNT1, Execute(TOKEN, EmptyData)),
       UserOp(ACCOUNT2, ExecuteBatch(<<TOKEN, USDC>>, <<0, 0>>, <<unknownData, transferFromUsdc>>)),
       UserOp(ACCOUNT2, ExecuteBatch(<<TOKEN, USDC>>, <<>>, <<unknownData, transferFromUsdc>>)),
       UserOp(ACCOUNT1, ExecuteBatch(<<TOKEN, TOKEN>>, <<0, 0>>, <<transfer5, malformedTransfer>>)),
       UserOp(ACCOUNT1, unknownData),
       UserOp(ACCOUNT1, EmptyData),
       UserOp(ACCOUNT2, Execute(USDC, transferFromOneUsdc)) >>

Tx(to, from, input) == [to |-> to, from |-> from, input |-> input, gasPrice |-> Null]

BundleTx(ops) == Tx(ENTRY_POINT_07, BUNDLER, HandleOps(ops, BUNDLER))

DirectTxs ==
    << Tx(ACCOUNT1, EOA, Execute(TOKEN, transfer5)),
       Tx(ACCOUNT1, EOA, Execute(TOKEN, unknownData)),
       Tx(ACCOUNT1, EOA, Execute(FACTORY, deployKami)),
       Tx(ACCOUNT1, EOA, Execute(TOKEN, EmptyData)),
       Tx(ACCOUNT1, EOA, ExecuteBatch(<<TOKEN, USDC>>, <<>>, <<unknownData, transferFromUsdc>>)),
       Tx(ACCOUNT1, EOA, ExecuteBatch(<<>>, <<>>, <<>>)),
       Tx(TOKEN, EOA, transfer5),
       Tx(TOKEN, EOA, setPriceData),
       Tx(TOKEN, EOA, unknownData),
       Tx(ACCOUNT1, EOA, EmptyData),
       Tx("", EOA, deployKami),
       Tx(ENTRY_POINT_07, EOA, depositToData),
       Tx(ENTRY_POINT_07, EOA, transfer5),
       Tx(ToLower(ENTRY_POINT_07), BUNDLER,
          HandleOps(<<UserOp(ACCOUNT1, Execute(TOKEN, transfer5))>>, BUNDLER)),
       Tx(ACCOUNT1, EOA, HandleOps(<<>>, BUNDLER)),
       Tx(ENTRY_POINT_07, BUNDLER, EmptyData),
       Tx("", EOA, EmptyData) >>

\* the transactions concurrent requests are run on: a deploy of KAMI721C's creation code,
\* a call only an artifact's table decodes, a bundled USDC transferFrom, an unknown call
ConcurrentTxs ==
    << Tx(ACCOUNT1, EOA, Execute(FACTORY, deployKami)),
       Tx(TOKEN, EOA, setPriceData),
       BundleTx(<<UserOp(ACCOUNT2, Execute(USDC, transferFromUsdc))>>),
       Tx(TOKEN, EOA, unknownData) >>

\* the tuple type tags with the array suffix each carries
TupleTags ==
    {[type |-> "tuple", suffix |-> ""], [type |-> "tuple[]", suffix |-> "[]"],
     [type |-> "tuple[][]", suffix |-> "[][]"]}

\* parameters of non-tuple type, each with its canonical type written out
LeafCases ==
    {[p |-> P("a", "address"), canon |-> "address"],
     [p |-> P("b", "uint96"), canon |-> "uint96"]}

\* the tuple parameters of one or two components whose last component is drawn from
\* `inner`, each with its canonical type assembled from those of its components
TupleCasesOver(inner) ==
    {[p |-> [name |-> "t", type |-> tg.type, components |-> <<c.p>>],
      canon |-> "(" \o c.canon \o ")" \o tg.suffix] : tg \in TupleTags, c \in inner}
    \cup
    {[p |-> [name |-> "t", type |-> tg.type, components |-> <<l.p, c.p>>],
      canon |-> "(" \o l.canon \o "," \o c.canon \o ")" \o tg.suffix] :
        tg \in TupleTags, l \in LeafCases, c \in inner}

\* the parameters with tuples nested up to depth d
RECURSIVE AbiParamCases(_)
AbiParamCases(d) ==
    IF d = 0 THEN LeafCases
    ELSE LeafCases \cup TupleCasesOver(AbiParamCases(d - 1))

\* the descriptors getSelectorFromAbiItem is applied to, each with the canonical
\* signature expected of it
SelectorCases ==
    {[item |-> Fn("f", <<c.p>>), sig |-> "f(" \o c.canon \o ")"] : c \in AbiParamCases(MaxDepth)}
    \cup
    {[item |-> KAMI_MINT_ABI[1], sig |-> "mintFor(address,uint256,string,(address,uint96)[])"],
     [item |-> Fn("g", <<>>), sig |-> "g()"]}

\* [receipt, gasPrice]: what the node reports about gas
GasChoices ==
    << [receipt |-> Null, gasPrice |-> Null],
       [receipt |-> Null, gasPrice |-> Some(2000000000)],
       [receipt |-> Some([gasUsed |-> 21000, effectiveGasPrice |-> 1500000000]),
        gasPrice |-> Some(2000000000)] >>

\* the transactions the two-request fetch is run on: the direct transactions and the
\* bundles of one user operation
FetchTxs ==
    DirectTxs \o [i \in 1..Len(UserOpChoices) |-> BundleTx(<<UserOpChoices[i]>>)]

\* the artifacts directories the decode operations are run against
DecodeDirs ==
    << NoDir,
       [exists |-> TRUE, files |-> <<ArtKami>>],
       [exists |-> TRUE, files |-> <<ArtToken, ArtKami>>] >>

\* the payloads decodeWithAbi is applied to
CodecData ==
    << transfer5, transferFromUsdc, unknownData, malformedTransfer, setPriceData, deployKami,
       deployViaFactory, transferWithData,
       Execute(TOKEN, transfer5),
       CallData("0x00774360", "bytes", <<RawBytes(HCat(Hx0x, Run("z", 600)))>>, EncLen(2, 300)),
       CallData("0x00774360", "bytes", <<RawBytes(HCat(Hx0x, Run("z", 40)))>>, EncLen(2, 20)) >>

\* the inputs getContractNameFromInitCode is applied to
InitCodes ==
    << HCat(Hx0x, Run("k", 600)),
       HCat(Hx0x, HCat(Run("f", 40), Run("k", 600))),
       HCat(Hx0x, HCat(Run("f", 104), Run("p", 300))),
       HCat(Hx0x, HCat(Run("f", 40), Run("r", 400))),
       HCat(Hx0x, Run("k", 126)),
       HCat(Hx0x, Run("k", 64)),
       HCat(Hx0x, Run("k", 63)),
       HCat(Hx0x, Run("k", 62)),
       Run("r", 63),
       HCat(Hx0x, Run("t", 100)),
       HCat(Hx0x, Run("o", 300)),
       HCat(Hx0x, Run("z", 600)),
       <<>>,
       HCat(Hx0x, HCat(Run("f", 40), HCat(Run("k", 300), Run("t", 100)))),
       HCat(Hx0x, HCat(Run("z", 16400), Run("t", 100))),
       HCat(Hx0x, HCat(Run("z", 16600), Run("t", 100))) >>

\* the environment replaces the artifacts directory
SwitchDir ==
    /\ \E i \in 1..Len(DecodeDirs) :
          /\ DecodeDirs[i] # artifacts
          /\ artifacts' = DecodeDirs[i]
    /\ op' = "env"
    /\ Cleared
    /\ UNCHANGED <<cachedAbi, decodeVars>>

\* decodeWithAbi as decodeToCallSummary calls it: on the merged table, or on the fallback
CallDecodeWithAbi ==
    /\ \E i \in 1..Len(CodecData), table \in {"merged", "fallback"} :
          \E g \in {getMergedAbi(artifacts, cachedAbi)} :
             \E abi \in {IF table = "merged" THEN g.ret ELSE getFallbackAbi} :
                \E d \in {decodeWithAbi(artifacts,
                                        [cache |-> IF table = "merged" THEN g.cache
                                                   ELSE cachedAbi,
                                         sigs |-> cachedBytecodeSignatures],
                                        abi, CodecData[i])} :
                   /\ codec' = [abi |-> abi, data |-> CodecData[i], r |-> d.r]
                   /\ cachedAbi' = d.st.cache
                   /\ cachedBytecodeSignatures' = d.st.sigs
                   /\ IF table = "merged"
                      THEN ret' = g.ret /\ loaded' = g.loaded /\ seen' = g.seen
                      ELSE UNCHANGED <<ret, loaded, seen>>
    /\ op' = "decodeWithAbi"
    /\ UNCHANGED <<artifacts, contractName, selCall, inflight, toCallSummary, pc, settled, tx, receipt, verbose, result>>

\* decodeToCallSummary(data)
CallDecodeToCallSummary ==
    /\ \E i \in 1..Len(CodecData) :
          \E g \in {getMergedAbi(artifacts, cachedAbi)} :
             \E d \in {decodeToCallSummary(artifacts,
                                           [cache |-> cachedAbi,
                                            sigs |-> cachedBytecodeSignatures],
                                           CodecData[i])} :
                /\ toCallSummary' = [merged |-> g.ret, data |-> CodecData[i],
                                     out |-> [res |-> d.res, error |-> d.error,
                                              tried |-> d.tried]]
                /\ cachedAbi' = d.st.cache
                /\ cachedBytecodeSignatures' = d.st.sigs
                /\ ret' = g.ret
                /\ loaded' = g.loaded
                /\ seen' = g.seen
    /\ op' = "decodeToCallSummary"
    /\ UNCHANGED <<artifacts, codec, contractName, selCall, inflight, pc, settled, tx, receipt, verbose, result>>

\* decodeTransaction(hash, chainId, verbose, rpcUrl) up to its await
StartDecode ==
    /\ pc = "idle"
    /\ pc' = "fetching"
    /\ \E vb \in BOOLEAN : verbose' = vb
    /\ tx' = Null
    /\ receipt' = Null
    /\ result' = Null
    /\ op' = "decodeTransaction"
    /\ Len(settled) # 1
    /\ settled' = <<>>
    /\ Cleared
    /\ UNCHANGED <<artifacts, cachedAbi, cachedBytecodeSignatures, codec, contractName, selCall, inflight, toCallSummary>>

\* getTransaction rejects: the outer catch resolves with its message
FetchFails ==
    /\ pc = "fetching"
    /\ pc' = "idle"
    /\ result' = Result(FALSE, Null, Null, Null, Null, Null, Null,
                        Some("TransactionNotFoundError"))
    /\ op' = "decodeTransaction"
    /\ settled = <<>>
    /\ settled' = <<"tx", "receipt">>
    /\ UNCHANGED <<artifacts, cachedAbi, cachedBytecodeSignatures, seen, loaded, ret, codec,
                   contractName, selCall, inflight, toCallSummary, tx, receipt, verbose>>

\* the rest of decodeTransaction on the fetched transaction t and receipt rc
Resolve(t, rc) ==
    \E d \in {decodeTransaction(artifacts,
                                [cache |-> cachedAbi, sigs |-> cachedBytecodeSignatures],
                                t, rc, verbose)} :
       /\ tx' = t
       /\ receipt' = rc
       /\ result' = d.result
       /\ cachedAbi' = d.st.cache
       /\ cachedBytecodeSignatures' = d.st.sigs

\* both RPC replies arrive
FetchDone ==
    /\ pc = "fetching"
    /\ pc' = "idle"
    /\ \E g \in 1..Len(GasChoices) :
          \/ \E n \in 0..MaxOps : \E f \in [1..n -> 1..Len(UserOpChoices)] :
                Resolve([BundleTx([i \in 1..n |-> UserOpChoices[f[i]]])
                            EXCEPT !.gasPrice = GasChoices[g].gasPrice],
                        GasChoices[g].receipt)
          \/ \E k \in 1..Len(DirectTxs) :
                Resolve([DirectTxs[k] EXCEPT !.gasPrice = GasChoices[g].gasPrice],
                        GasChoices[g].receipt)
    /\ op' = "decodeTransaction"
    /\ settled = <<>>
    /\ settled' = <<"tx", "receipt">>
    /\ UNCHANGED <<artifacts, seen, loaded, ret, codec, contractName, selCall, inflight, toCallSummary, verbose>>

\* getContractNameFromInitCode(initCode)
CallGetContractNameFromInitCode ==
    /\ \E i \in 1..Len(InitCodes) :
          \E r \in {getContractNameFromInitCode(artifacts, cachedBytecodeSignatures,
                                                InitCodes[i])} :
             /\ contractName' = [initCode |-> InitCodes[i], name |-> r.name]
             /\ cachedBytecodeSignatures' = r.cache
    /\ op' = "getContractNameFromInitCode"
    /\ UNCHANGED <<artifacts, cachedAbi, seen, loaded, ret, codec, selCall, inflight, toCallSummary, pc,
                   settled, tx, receipt, verbose, result>>

\* getSelectorFromAbiItem(item)
CallGetSelectorFromAbiItem ==
    /\ \E c \in SelectorCases :
          selCall' = [item |-> c.item, expected |-> c.sig,
                      sig |-> computedSig(c.item), sel |-> getSelectorFromAbiItem(c.item)]
    /\ op' = "getSelectorFromAbiItem"
    /\ UNCHANGED <<artifacts, cachedAbi, cachedBytecodeSignatures, seen, loaded, ret, codec,
                   contractName, inflight, toCallSummary, pc, settled, tx, receipt, verbose,
                   result>>

\* the others: the variables the concurrent requests leave alone
requestFrame ==
    <<artifacts, seen, loaded, ret, codec, contractName, selCall, toCallSummary, pc, settled,
      tx, receipt, verbose, result>>

\* request r calls decodeTransaction, which runs up to its await
Request(r) ==
    /\ inflight[r].pc = "idle"
    /\ \E vb \in {FALSE} :
          inflight' = [inflight EXCEPT ![r] =
                          [pc |-> "fetching",
                           base |-> [dir |-> artifacts, cache |-> cachedAbi,
                                     sigs |-> cachedBytecodeSignatures],
                           tx |-> Null, receipt |-> Null, verbose |-> vb, result |-> Null]]
    /\ op' = "decodeTransaction"
    /\ UNCHANGED <<cachedAbi, cachedBytecodeSignatures, requestFrame>>

\* mutant: the continuation of request r leaves a signature list without its first entry
Respond_TornSignatures(r) ==
    /\ inflight[r].pc = "fetching"
    /\ \E k \in 1..Len(ConcurrentTxs) :
          \E d \in {decodeTransaction(artifacts,
                                      [cache |-> cachedAbi, sigs |-> cachedBytecodeSignatures],
                                      ConcurrentTxs[k], Null, inflight[r].verbose)} :
             /\ inflight' = [inflight EXCEPT ![r].pc = "idle", ![r].tx = ConcurrentTxs[k],
                                              ![r].result = d.result]
             /\ cachedAbi' = d.st.cache
             /\ cachedBytecodeSignatures' =
                   IF d.st.sigs # Null /\ Len(d.st.sigs.list) > 0
                   THEN [null |-> FALSE, list |-> Tail(d.st.sigs.list)]
                   ELSE d.st.sigs
    /\ op' = "decodeTransaction"
    /\ UNCHANGED requestFrame

\* the fetch of request r resolves and the rest of its decodeTransaction runs to the end
Respond(r) ==
    /\ inflight[r].pc = "fetching"
    /\ \E k \in 1..Len(ConcurrentTxs) :
          \E d \in {decodeTransaction(artifacts,
                                      [cache |-> cachedAbi, sigs |-> cachedBytecodeSignatures],
                                      ConcurrentTxs[k], Null, inflight[r].verbose)} :
             /\ inflight' = [inflight EXCEPT ![r].pc = "idle", ![r].tx = ConcurrentTxs[k],
                                              ![r].result = d.result]
             /\ cachedAbi' = d.st.cache
             /\ cachedBytecodeSignatures' = d.st.sigs
    /\ op' = "decodeTransaction"
    /\ UNCHANGED requestFrame

\* the fetch of request r rejects and the outer catch answers
RespondFails(r) ==
    /\ inflight[r].pc = "fetching"
    /\ inflight' = [inflight EXCEPT ![r].pc = "idle",
                                     ![r].result = Result(FALSE, Null, Null, Null, Null, Null,
                                                          Null, Some("TransactionNotFoundError"))]
    /\ op' = "decodeTransaction"
    /\ UNCHANGED <<cachedAbi, cachedBytecodeSignatures, requestFrame>>

\* the environment replaces the artifacts directory while no request is in flight
SwitchDirBetween ==
    /\ \A r \in 1..MaxRequests : inflight[r].pc = "idle"
    /\ SwitchDir

NextConcurrent ==
    \/ SwitchDirBetween
    \/ \E r \in 1..MaxRequests : Request(r)
    \/ \E r \in 1..MaxRequests : Respond(r)
    \/ \E r \in 1..MaxRequests : RespondFails(r)

SpecConcurrent == Init /\ [][NextConcurrent]_vars

NextSelector ==
    \/ CallGetSelectorFromAbiItem

SpecSelector == Init /\ [][NextSelector]_vars

NextCodec ==
    \/ SwitchDir
    \/ CallDecodeWithAbi

SpecCodec == Init /\ [][NextCodec]_vars

NextSummary ==
    \/ SwitchDir
    \/ CallDecodeToCallSummary

SpecSummary == Init /\ [][NextSummary]_vars

NextIdentify ==
    \/ CreateDir
    \/ RemoveDir
    \/ AddFile
    \/ RemoveFile
    \/ CallGetContractNameFromInitCode

SpecIdentify == Init /\ [][NextIdentify]_vars

\* a transaction fetched with each gasPrice a node reports
WithGasPrice(t) == {[t EXCEPT !.gasPrice = GasChoices[g].gasPrice] : g \in 1..Len(GasChoices)}

\* the continuation of the await once both requests have settled
Continue(t, rc) ==
    /\ Resolve(t, rc)
    /\ pc' = "idle"

\* the requests of the latest call that are in flight
InFlight == {"tx", "receipt"} \ {settled[i] : i \in 1..Len(settled)}

\* client.getTransaction({ hash }) fulfils: Promise.all resolves when the receipt
\* request has settled too
TxArrives ==
    /\ pc = "fetching"
    /\ "tx" \in InFlight
    /\ settled' = Append(settled, "tx")
    /\ \E k \in 1..Len(FetchTxs) : \E t \in WithGasPrice(FetchTxs[k]) :
          IF "receipt" \in InFlight
          THEN /\ tx' = t
               /\ UNCHANGED <<cachedAbi, cachedBytecodeSignatures, pc, receipt, result>>
          ELSE Continue(t, receipt)
    /\ op' = "decodeTransaction"
    /\ UNCHANGED <<artifacts, seen, loaded, ret, codec, contractName, selCall, inflight, toCallSummary, verbose>>

\* client.getTransaction({ hash }) rejects: Promise.all rejects at once and the outer
\* catch answers
TxFails ==
    /\ pc = "fetching"
    /\ "tx" \in InFlight
    /\ settled' = Append(settled, "tx")
    /\ pc' = "idle"
    /\ result' = Result(FALSE, Null, Null, Null, Null, Null, Null,
                        Some("TransactionNotFoundError"))
    /\ op' = "decodeTransaction"
    /\ UNCHANGED <<artifacts, cachedAbi, cachedBytecodeSignatures, seen, loaded, ret, codec,
                   contractName, selCall, inflight, toCallSummary, tx, receipt, verbose>>

\* the receipt request settles with rc (Null: caught and replaced by null); after a
\* rejected Promise.all nobody reads it
ReceiptSettles(rc) ==
    /\ pc = "fetching" \/ settled = <<"tx">>
    /\ settled' = Append(settled, "receipt")
    /\ IF pc = "fetching" /\ "tx" \in InFlight
       THEN /\ receipt' = rc
            /\ UNCHANGED <<cachedAbi, cachedBytecodeSignatures, pc, tx, result>>
       ELSE IF pc = "fetching"
       THEN Continue(tx, rc)
       ELSE UNCHANGED <<cachedAbi, cachedBytecodeSignatures, pc, tx, receipt, result>>
    /\ op' = "decodeTransaction"
    /\ UNCHANGED <<artifacts, seen, loaded, ret, codec, contractName, selCall, inflight, toCallSummary, verbose>>

\* client.getTransactionReceipt({ hash }) fulfils
ReceiptArrives ==
    /\ "receipt" \in InFlight
    /\ ReceiptSettles(GasChoices[Len(GasChoices)].receipt)

\* mutant: a rejected receipt request rejects the whole decode
ReceiptFails_Rejects ==
    /\ pc = "fetching"
    /\ "receipt" \in InFlight
    /\ settled' = Append(settled, "receipt")
    /\ pc' = "idle"
    /\ result' = Result(FALSE, Null, Null, Null, Null, Null, Null,
                        Some("TransactionReceiptNotFoundError"))
    /\ op' = "decodeTransaction"
    /\ UNCHANGED <<artifacts, cachedAbi, cachedBytecodeSignatures, seen, loaded, ret, codec,
                   contractName, selCall, inflight, toCallSummary, tx, receipt, verbose>>

\* client.getTransactionReceipt({ hash }) rejects: .catch(() => null)
ReceiptFails ==
    /\ "receipt" \in InFlight
    /\ ReceiptSettles(Null)

NextFetch ==
    \/ SwitchDir
    \/ StartDecode
    \/ TxArrives
    \/ TxFails
    \/ ReceiptArrives
    \/ ReceiptFails

SpecFetch == Init /\ [][NextFetch]_vars

NextDecode ==
    \/ SwitchDir
    \/ StartDecode
    \/ FetchFails
    \/ FetchDone

SpecDecode == Init /\ [][NextDecode]_vars

(***************************************************************************)
(* Properties of the schema registry.                                      *)
(***************************************************************************)
Names(abi) == {abi[i].name : i \in {j \in 1..Len(abi) : abi[j].type = "function"}}

Contains(abi, item) == \E i \in 1..Len(abi) : abi[i] = item

\* a source contributes nothing: unparsable, or no named function item before a throw
RECURSIVE HasUsableItem(_)
HasUsableItem(abi) ==
    /\ Len(abi) > 0
    /\ Head(abi) # NullItem
    /\ \/ (Head(abi).type = "function" /\ Head(abi).name # "")
       \/ HasUsableItem(Tail(abi))

Unusable(f) == ~f.valid \/ ~HasUsableItem(f.abi)

LoadFailsEntirely(dir) ==
    \/ ~dir.exists
    \/ \A i \in 1..Len(dir.files) : Unusable(dir.files[i])

\* C2: the table getMergedAbi returns contains every fallback function: its function
\* count is at least the fallback count and it includes execute, deploy and mintFor.
MergedContainsFallback ==
    op = "getMergedAbi" =>
        /\ \A i \in 1..Len(FALLBACK_ABI) : Contains(ret, FALLBACK_ABI[i])
        /\ FunctionCount(ret) >= FALLBACK_FUNCTION_COUNT
        /\ {"execute", "deploy", "mintFor"} \subseteq Names(ret)

\* C2 witness: sources disappeared after a merge was cached, and getMergedAbi answered
MergedContainsFallbackWitness ==
    /\ op = "getMergedAbi"
    /\ ~artifacts.exists
    /\ cachedAbi # Null
    /\ ret = cachedAbi
    /\ FunctionCount(ret) > FALLBACK_FUNCTION_COUNT

NoDuplicateSelectors(abi) ==
    \A i, j \in 1..Len(abi) :
        i # j => getSelectorFromAbiItem(abi[i]) # getSelectorFromAbiItem(abi[j])

\* every explicit identifier a source gives for one of its functions is the selector
\* computed from that function's canonical signature
IdsAgree(f) ==
    \A i \in 1..Len(f.abi) :
        (f.abi[i].type = "function" /\ f.abi[i].name # "") =>
            artifactSelector(f.methodIds, f.abi[i]) = getSelectorFromAbiItem(f.abi[i])

\* C3 as stated: no two entries of the returned table have the same selector of their
\* canonical signature, for every set of schema sources.
UniqueCanonicalSelectors ==
    op = "getMergedAbi" => NoDuplicateSelectors(ret)

\* C3 amended: the keys of the seen map are pairwise distinct (explicit identifier when
\* the source gives one, computed selector otherwise); the merged table of sources whose
\* explicit identifiers agree with the computed selectors has no two entries with the
\* same canonical selector.
UniqueKeys ==
    op = "getMergedAbi" =>
        /\ \A i, j \in 1..Len(seen) : i # j => seen[i].key # seen[j].key
        /\ (\A i \in 1..Len(artifacts.files) : IdsAgree(artifacts.files[i]))
              => NoDuplicateSelectors(loaded)

\* C3 witness: two sources that both define setPrice(uint256), one with identifiers
UniqueKeysWitness ==
    /\ op = "getMergedAbi"
    /\ artifacts.exists
    /\ artifacts.files = <<ArtToken, ArtKami>>
    /\ ret = loaded
    /\ Len(loaded) = 10

\* C4 as stated (second half): once a merge is cached it stays cached for the rest of
\* the process.
CachedForRemainder ==
    [][cachedAbi # Null => cachedAbi' = cachedAbi]_vars

\* C4 amended: the cache only ever holds a merge that exceeds the fallback count; a
\* merge that exceeds it is stored and returned, one that does not leaves the cache as
\* it was and returns the cached table if there is one, else the rebuilt table; a
\* cached table is replaced only by a later merge that exceeds the fallback count.
CachePolicy ==
    /\ [](cachedAbi # Null => FunctionCount(cachedAbi) > FALLBACK_FUNCTION_COUNT)
    /\ [][op' = "getMergedAbi" =>
            LET rebuilt == loadMergedAbiFromArtifacts(artifacts)
            IN IF FunctionCount(rebuilt) > FALLBACK_FUNCTION_COUNT
               THEN cachedAbi' = rebuilt /\ ret' = rebuilt
               ELSE /\ cachedAbi' = cachedAbi
                    /\ ret' = IF cachedAbi = Null THEN rebuilt ELSE cachedAbi]_vars
    /\ [][op' # "getMergedAbi" => cachedAbi' = cachedAbi]_vars

\* C4 witness: a rebuild that does not exceed the fallback count answered from the cache
CachePolicyWitness ==
    /\ op = "getMergedAbi"
    /\ cachedAbi # Null
    /\ FunctionCount(loaded) <= FALLBACK_FUNCTION_COUNT
    /\ ret = cachedAbi
    /\ ret # loaded

\* C5 as stated: when loading fails entirely getMergedAbi returns exactly the fallback.
FailedLoadIsFallback ==
    (op = "getMergedAbi" /\ LoadFailsEntirely(artifacts)) => ret = FALLBACK_ABI

\* C5 amended: when loading fails entirely the rebuilt table is exactly the fallback
\* table, and getMergedAbi returns it unless an earlier merge is cached, in which case
\* it returns the cached table.
FailedLoadIsFallbackUnlessCached ==
    (op = "getMergedAbi" /\ LoadFailsEntirely(artifacts)) =>
        /\ loaded = FALLBACK_ABI
        /\ ret = IF cachedAbi = Null THEN FALLBACK_ABI ELSE cachedAbi

\* C5 witness: a directory holding only an unparsable file, nothing cached
FailedLoadWitness ==
    /\ op = "getMergedAbi"
    /\ artifacts.exists
    /\ artifacts.files = <<ArtBroken>>
    /\ cachedAbi = Null
    /\ ret = FALLBACK_ABI

\* the function items a load reaches, in order: fallback first, then each parsable
\* file's items up to a throwing entry, with the key each is stored under
RECURSIVE ReachedItems(_, _)
ReachedItems(abi, methodIds) ==
    IF Len(abi) = 0 \/ Head(abi) = NullItem THEN <<>>
    ELSE (IF Head(abi).type = "function" /\ Head(abi).name # ""
          THEN << [key |-> artifactSelector(methodIds, Head(abi)),
                   item |-> Fn(Head(abi).name, Head(abi).inputs),
                   fallback |-> FALSE] >>
          ELSE <<>>) \o ReachedItems(Tail(abi), methodIds)

RECURSIVE Discovered(_)
Discovered(files) ==
    IF Len(files) = 0 THEN <<>>
    ELSE (IF Head(files).valid THEN ReachedItems(Head(files).abi, Head(files).methodIds)
          ELSE <<>>) \o Discovered(Tail(files))

Candidates(dir) ==
    [i \in 1..Len(FALLBACK_ABI) |->
        [key |-> getSelectorFromAbiItem(FALLBACK_ABI[i]), item |-> FALLBACK_ABI[i],
         fallback |-> TRUE]] \o Discovered(dir.files)

NoEntry(abi, data) ==
    \A i \in 1..Len(abi) :
        abi[i].type = "function" => getSelectorFromAbiItem(abi[i]) # data.sel

\* C7: decodeWithAbi returns a value and never raises: a decoded call, or a failure
\* object carrying the codec's message; a payload whose selector matches no entry of
\* the table, and a payload whose arguments are malformed, yield the failure object.
DecodeWithAbiReturns ==
    codec # Null =>
        /\ ~codec.r.threw
        /\ codec.r.kind \in {"call", "error"}
        /\ NoEntry(codec.abi, codec.data) =>
              /\ codec.r.kind = "error"
              /\ codec.r.error = "AbiFunctionSignatureNotFoundError"
        /\ (~NoEntry(codec.abi, codec.data) /\ codec.data.enc = "?") =>
              /\ codec.r.kind = "error"
              /\ codec.r.error = "AbiDecodingDataSizeTooSmallError"

\* C7 witness: a payload whose selector is in no entry of the merged table came back
\* as a failure object
DecodeWithAbiReturnsWitness ==
    /\ codec # Null
    /\ op = "decodeWithAbi"
    /\ Len(codec.abi) > Len(FALLBACK_ABI)
    /\ NoEntry(codec.abi, codec.data)
    /\ ~codec.r.threw
    /\ codec.r.kind = "error"

(***************************************************************************)
(* Properties of the transaction analyzer.                                 *)
(***************************************************************************)
\* decodeTransaction has resolved on a fetched transaction
Decoded == op = "decodeTransaction" /\ pc = "idle" /\ tx # Null

ToEntryPoint == tx.to # "" /\ ToLower(tx.to) = ToLower(ENTRY_POINT_07)

\* the fetched transaction is a handleOps bundle sent to the entry point
IsBundle ==
    /\ ~IsEmptyData(tx.input)
    /\ ToEntryPoint
    /\ ~decodeFunctionData(ENTRY_POINT_ABI, tx.input).threw
    /\ decodeFunctionData(ENTRY_POINT_ABI, tx.input).functionName = "handleOps"

BundleOps == tx.input.args[1].items

BundleBeneficiary == tx.input.args[2].v

\* the call data of a user operation classifies as execute or executeBatch
Classifies(callData) == ~decodeFunctionData(EXECUTE_ABI, callData).threw

\* the inner payloads of one user operation, in order: [via, sender, dest, func]
PayloadsOf(userOp) ==
    IF IsEmptyData(userOp.callData) \/ ~Classifies(userOp.callData) THEN <<>>
    ELSE IF decodeFunctionData(EXECUTE_ABI, userOp.callData).functionName = "execute"
    THEN << [via |-> "execute", sender |-> userOp.sender,
             dest |-> userOp.callData.args[1].v, func |-> userOp.callData.args[3].d] >>
    ELSE [j \in 1..Len(userOp.callData.args[1].items) |->
             [via |-> "executeBatch", sender |-> userOp.sender,
              dest |-> userOp.callData.args[1].items[j].v,
              func |-> IF j <= Len(userOp.callData.args[3].items)
                       THEN userOp.callData.args[3].items[j].d ELSE EmptyData]]

\* the non-empty inner payloads of a bundle, in operation order
RECURSIVE Payloads(_)
Payloads(ops) ==
    IF Len(ops) = 0 THEN <<>>
    ELSE SelectSeq(PayloadsOf(Head(ops)), LAMBDA p : ~IsEmptyData(p.func))
            \o Payloads(Tail(ops))

\* the payload decodes to no call with any table of the model
Undecodable(func) ==
    \A i \in 1..Len(DecodeDirs) :
        decodeToCallSummary(DecodeDirs[i], [cache |-> Null, sigs |-> Null], func).res.null

\* the summary the payload gives: Null unless it decodes as transfer / transferFrom
SummaryOfPayload(p, beneficiary) ==
    IF decodeWithAbi(NoDir, [cache |-> Null, sigs |-> Null], FALLBACK_ABI, p.func).r.kind
          # "call"
    THEN Null
    ELSE transferSummary(
             decodeWithAbi(NoDir, [cache |-> Null, sigs |-> Null], FALLBACK_ABI, p.func).r,
             p.dest, p.sender, beneficiary).summary

\* the summary of the first payload that gives one
RECURSIVE FirstSummary(_, _)
FirstSummary(ps, beneficiary) ==
    IF Len(ps) = 0 THEN Null
    ELSE IF SummaryOfPayload(Head(ps), beneficiary) # Null
    THEN SummaryOfPayload(Head(ps), beneficiary)
    ELSE FirstSummary(Tail(ps), beneficiary)

ResultCalls == IF result.calls = Null THEN <<>> ELSE result.calls.v

\* C1 as stated (on decodes without the verbose log): the summary of a handleOps bundle
\* is the one built from the first inner call, in operation order, that decodes as
\* transfer / transferFrom; later ones never overwrite it.
FirstTransferWins ==
    (Decoded /\ IsBundle /\ ~verbose) =>
        result.summary = FirstSummary(Payloads(BundleOps), BundleBeneficiary)

\* C8 as stated (the placeholder taken as the code writes it): in a handleOps bundle
\* the result is success, every non-empty inner payload has its entry in the call list
\* at its position, and the entry of a payload no table decodes is the placeholder.
UnknownCallsArePlaceholders ==
    (Decoded /\ IsBundle) =>
        /\ result.success
        /\ Len(ResultCalls) = Len(Payloads(BundleOps))
        /\ \A k \in 1..Len(Payloads(BundleOps)) :
              Undecodable(Payloads(BundleOps)[k].func) =>
                 ResultCalls[k] = unknownCall(Payloads(BundleOps)[k].func,
                                              Payloads(BundleOps)[k].dest)

\* the user operations whose call data is non-empty and is no execute / executeBatch
Unclassified(ops) ==
    {i \in 1..Len(ops) : ~IsEmptyData(ops[i].callData) /\ ~Classifies(ops[i].callData)}

\* C9 as stated (on decodes without the verbose log): in a handleOps bundle a user
\* operation whose non-empty call data does not classify as execute / executeBatch
\* contributes an entry to the call list, next to the entries of the inner payloads.
UnclassifiedOpsContribute ==
    (Decoded /\ IsBundle /\ ~verbose) =>
        Len(ResultCalls) >= Len(Payloads(BundleOps)) + Cardinality(Unclassified(BundleOps))

\* C10 as stated: a transaction to the entry point whose input is not the bundling
\* function falls through to the direct branches: the result is a decoded call, or
\* failure with 'Could not decode transaction.'
EntryPointFallsThrough ==
    (Decoded /\ ~IsEmptyData(tx.input) /\ ToEntryPoint /\ ~IsBundle) =>
        \/ result.success
        \/ result.error = Some("Could not decode transaction.")

\* the entry of the call list is a transfer / transferFrom with 'to' and 'amount'
TransferShaped(call) ==
    /\ call.function \in {<<"transfer">>, <<"transferFrom">>}
    /\ "to" \in DOMAIN call.args
    /\ "amount" \in DOMAIN call.args

\* C11 as stated: in each of the decoding cases (bundle, direct execute / executeBatch,
\* generic direct call) a result whose call list holds a transfer / transferFrom with
\* 'to' and 'amount' carries a summary.
TransferCallsAreSummarized ==
    (Decoded /\ result.success /\ \E k \in 1..Len(ResultCalls) : TransferShaped(ResultCalls[k]))
        => ~result.summary.null

\* the payloads of the bundle that decode as transfer / transferFrom with 'to' and
\* 'amount'
SummaryGivers(ps, beneficiary) ==
    {k \in 1..Len(ps) : SummaryOfPayload(ps[k], beneficiary) # Null}

\* payload p is an execute of func on dest, and the only transfer-shaped payload of ps
OnlyTransferIs(ps, k, dest, func) ==
    /\ ps[k].via = "execute"
    /\ ps[k].dest = dest
    /\ ps[k].func = func
    /\ SummaryGivers(ps, BundleBeneficiary) = {k}

\* C12 as stated: a bundled execute on USDC of transferFrom(from, to, 1000000) gives
\* the summary amount '1.0 USDC'.
UsdcAmountOneDotZero ==
    (Decoded /\ IsBundle) =>
        \A k \in 1..Len(Payloads(BundleOps)) :
            OnlyTransferIs(Payloads(BundleOps), k, USDC, transferFromOneUsdc) =>
                /\ ~result.summary.null
                /\ result.summary.v.amount = <<"1", ".", "0", " ", "USDC">>

\* C12 amended: a bundled execute on USDC of transferFrom(from, to, 1000000), the only
\* transfer-shaped call of its bundle, gives the summary amount '1 USDC' (the raw
\* integer scaled by 6 decimals, the zero fraction dropped), from = the 'from' argument
\* and beneficiary = the handleOps beneficiary; on a target that is no known token the
\* amount is the raw integer followed by ' (unknown token)' and from is the sender of
\* the user operation.
TokenAmountRendering ==
    (Decoded /\ IsBundle) =>
        \A k \in 1..Len(Payloads(BundleOps)) :
            /\ OnlyTransferIs(Payloads(BundleOps), k, USDC, transferFromOneUsdc) =>
                  result.summary = Some([amount |-> <<"1", " ", "USDC">>,
                                         from |-> <<"0xalice">>,
                                         beneficiary |-> BundleBeneficiary])
            /\ OnlyTransferIs(Payloads(BundleOps), k, USDC, transferFromUsdc) =>
                  result.summary = Some([amount |-> <<"1", ".", "5", " ", "USDC">>,
                                         from |-> <<"0xalice">>,
                                         beneficiary |-> BundleBeneficiary])
            /\ OnlyTransferIs(Payloads(BundleOps), k, TOKEN, transfer5) =>
                  result.summary = Some([amount |-> <<"5", " (unknown token)">>,
                                         from |-> <<Payloads(BundleOps)[k].sender>>,
                                         beneficiary |-> BundleBeneficiary])

\* C12 witness: a two-operation bundle whose only transfer-shaped call is the execute
\* on USDC of transferFrom(0xalice, 0xbob, 1000000) was decoded with its summary
TokenAmountRenderingWitness ==
    /\ Decoded
    /\ IsBundle
    /\ Len(BundleOps) = 2
    /\ \E k \in 1..Len(Payloads(BundleOps)) :
          OnlyTransferIs(Payloads(BundleOps), k, USDC, transferFromOneUsdc)
    /\ ~result.summary.null
    /\ result.summary.v.beneficiary = BUNDLER

\* C13: a transaction whose input data is empty or '0x', whatever its target, resolves
\* to success false with the 'simple ETH transfer with no data' message and no other
\* field: no call list, no summary.
NoDataIsSimpleTransfer ==
    (Decoded /\ IsEmptyData(tx.input)) =>
        result = Result(FALSE, Null, Null, Null, Null, Null, Null,
                        Some("This is a simple ETH transfer with no data."))

\* C13 witness: a transaction to the entry point with no input data was decoded
NoDataIsSimpleTransferWitness ==
    /\ Decoded
    /\ IsEmptyData(tx.input)
    /\ ToEntryPoint
    /\ ~result.success
    /\ result.calls.null
    /\ result.summary.null

(***************************************************************************)
(* Properties of the contract identifier.                                  *)
(***************************************************************************)
\* the number of hex digits of the input, its '0x' not counted
HexDigits(initCode) ==
    IF HStartsWith(initCode, Hx0x) THEN HLen(initCode) - 2 ELSE HLen(initCode)

\* the signatures the store holds
Registered == IF cachedBytecodeSignatures = Null THEN <<>> ELSE cachedBytecodeSignatures.list

Identified == op = "getContractNameFromInitCode" /\ contractName # Null

\* C14 as stated: getContractNameFromInitCode returns no name for an input shorter than
\* 64 bytes (128 hex digits).
NoNameBelow64Bytes ==
    (Identified /\ HexDigits(contractName.initCode) < 2 * 64) => contractName.name.null

\* C14 amended: getContractNameFromInitCode returns no name for an input shorter than
\* the short-prefix length of 64 hex digits (32 bytes), whatever signatures are
\* registered; an input of 63 hex digits yields no match.
NoNameBelowShortPrefix ==
    (Identified /\ HexDigits(contractName.initCode) < BYTECODE_SHORT_PREFIX_LEN)
        => contractName.name.null

\* C14 witness: an input of 63 hex digits of a registered contract's creation code was
\* given no name
NoNameBelowShortPrefixWitness ==
    /\ Identified
    /\ HexDigits(contractName.initCode) = BYTECODE_SHORT_PREFIX_LEN - 1
    /\ \E j \in 1..Len(Registered) :
          HStartsWith(Registered[j].prefixHex, Strip0x(contractName.initCode))
    /\ contractName.name.null

\* decodeWithAbi returned a decoded deploy call
DecodedDeploy ==
    /\ codec # Null
    /\ op = "decodeWithAbi"
    /\ codec.r.kind = "call"
    /\ codec.r.function = "deploy"

\* the hex digits of its initCode argument
DeployInitCode == Strip0x(codec.data.args[1].h)

\* the bytes after a 20-byte factory address start with the 128-byte creation-code
\* prefix of registered signature j
AtFactoryOffset(raw, j) ==
    /\ HLen(Registered[j].prefixHex) = 2 * 128
    /\ HStartsWith(HDrop(raw, 2 * 20), Registered[j].prefixHex)

\* the input matches signature j in no pass: its prefix at none of the offsets, its
\* short prefix nowhere
NoPassMatches(raw, j) ==
    /\ \A off \in {0, 40, 104, 168} : ~HStartsWith(HDrop(raw, off), Registered[j].prefixHex)
    /\ ~HIncludes(raw, Registered[j].shortPrefixHex)

\* C15: for a decoded deploy(bytes initCode), when the bytes after a 20-byte factory
\* address start with a registered contract's 128-byte creation-code prefix the
\* contract-kind is that contract's name; when initCode matches no registered signature
\* in any pass the contract-kind is absent and the call is displayed as plain 'deploy'.
DeployContractKind ==
    DecodedDeploy =>
        /\ (\E j \in 1..Len(Registered) : AtFactoryOffset(DeployInitCode, j)) =>
              /\ ~codec.r.contractKind.null
              /\ \E j \in 1..Len(Registered) :
                    /\ AtFactoryOffset(DeployInitCode, j)
                    /\ Registered[j].name = codec.r.contractKind.name
              /\ displayFunctionForCall(codec.r.function, codec.r.contractKind)
                    = <<"deploy (", codec.r.contractKind.name, ")">>
        /\ (\A j \in 1..Len(Registered) : NoPassMatches(DeployInitCode, j)) =>
              /\ codec.r.contractKind.null
              /\ displayFunctionForCall(codec.r.function, codec.r.contractKind) = <<"deploy">>

\* C15 witness: a deploy of factory address + KAMI721C creation code was decoded with
\* the store holding KAMI721C's signature
DeployContractKindWitness ==
    /\ DecodedDeploy
    /\ \E j \in 1..Len(Registered) : AtFactoryOffset(DeployInitCode, j)
    /\ ~HStartsWith(DeployInitCode, Registered[1].prefixHex)
    /\ codec.r.contractKind = [null |-> FALSE, name |-> "KAMI721C"]

\* C15 witness of the other case: a deploy matching no signature of a non-empty store
DeployWithoutKindWitness ==
    /\ DecodedDeploy
    /\ Len(Registered) > 0
    /\ \A j \in 1..Len(Registered) : NoPassMatches(DeployInitCode, j)
    /\ codec.r.contractKind.null

\* the descriptor the payload's selector matched in the table decodeWithAbi was given
MatchedDescriptor ==
    codec.abi[CHOOSE i \in 1..Len(codec.abi) :
                 /\ codec.abi[i].type = "function"
                 /\ getSelectorFromAbiItem(codec.abi[i]) = codec.data.sel
                 /\ \A j \in 1..(i - 1) :
                       ~(codec.abi[j].type = "function"
                           /\ getSelectorFromAbiItem(codec.abi[j]) = codec.data.sel)]

\* the declared name of parameter i (0-based) of a descriptor, 'arg<i>' when it has none
DeclaredName(item, i) ==
    IF item.inputs[i + 1].name = "" THEN PositionalName(i) ELSE item.inputs[i + 1].name

\* C16: for every successful decode, the i-th decoded argument is stored in the
\* argument map under the declared name of the i-th parameter of the descriptor the
\* payload's selector matched, also when several functions of the table share a name.
ArgsNamedByMatchedDescriptor ==
    (codec # Null /\ codec.r.kind = "call" /\ Len(MatchedDescriptor.inputs) > 0) =>
        /\ DOMAIN codec.r.args =
              {DeclaredName(MatchedDescriptor, i) : i \in 0..(Len(codec.data.args) - 1)}
        /\ \A i \in 0..(Len(codec.data.args) - 1) :
              codec.r.args[DeclaredName(MatchedDescriptor, i)] = formatArg(codec.data.args[i + 1])

\* decodeToCallSummary has just returned
SummaryReturned == toCallSummary # Null /\ op = "decodeToCallSummary"

\* what decodeWithAbi answers for the payload of that call on the merged table it used
MergedAttempt ==
    decodeWithAbi(artifacts, [cache |-> cachedAbi, sigs |-> cachedBytecodeSignatures],
                  toCallSummary.merged, toCallSummary.data).r

\* and on the fallback table
FallbackAttempt ==
    decodeWithAbi(artifacts, [cache |-> cachedAbi, sigs |-> cachedBytecodeSignatures],
                  getFallbackAbi, toCallSummary.data).r

\* the call summary decodeToCallSummary builds from a decoded call
SummaryFrom(r, source, table) ==
    Some([function |-> r.function, args |-> r.args, contractKind |-> r.contractKind,
          abiSource |-> source, abiFunctionCount |-> FunctionCount(table)])

\* C17: decodeToCallSummary decodes against the merged table first and consults the
\* fallback table only after the merged decode has failed; a result is labelled
\* 'fallback' only in that case; when both attempts fail it reports the error and
\* returns no call.
TwoTableFallback ==
    SummaryReturned =>
        /\ toCallSummary.out.tried[1] = "merged"
        /\ (toCallSummary.out.tried = <<"merged">>) <=> (MergedAttempt.kind = "call")
        /\ MergedAttempt.kind = "call" =>
              toCallSummary.out.res = SummaryFrom(MergedAttempt, "merged", toCallSummary.merged)
        /\ (MergedAttempt.kind = "error" /\ FallbackAttempt.kind = "call") =>
              toCallSummary.out.res = SummaryFrom(FallbackAttempt, "fallback", getFallbackAbi)
        /\ (~toCallSummary.out.res.null /\ toCallSummary.out.res.v.abiSource = "fallback") =>
              /\ MergedAttempt.kind = "error"
              /\ toCallSummary.out.tried = <<"merged", "fallback">>
        /\ (MergedAttempt.kind = "error" /\ FallbackAttempt.kind = "error") =>
              /\ toCallSummary.out.res.null
              /\ toCallSummary.out.error = FallbackAttempt.error
              /\ toCallSummary.out.error # ""

\* C17 witness: both attempts failed (the fallback was consulted after the merged
\* table) and no call was returned
TwoTableFallbackWitness ==
    /\ SummaryReturned
    /\ artifacts # NoDir
    /\ MergedAttempt.kind = "error"
    /\ toCallSummary.out.tried = <<"merged", "fallback">>
    /\ toCallSummary.out.res.null
    /\ toCallSummary.out.error = "AbiFunctionSignatureNotFoundError"

\* C17 witness of the other case: the merged table decoded a function the fallback
\* table lacks and the fallback was not consulted
MergedOnlyWitness ==
    /\ SummaryReturned
    /\ MergedAttempt.kind = "call"
    /\ FallbackAttempt.kind = "error"
    /\ toCallSummary.out.tried = <<"merged">>
    /\ toCallSummary.out.res.v.abiSource = "merged"

\* the fields of a DecodeResult other than verboseOutput
Structured(r) ==
    [success |-> r.success, calls |-> r.calls, summary |-> r.summary,
     gasUsed |-> r.gasUsed, gasPriceGwei |-> r.gasPriceGwei]

\* decodeTransaction on the fetched transaction and receipt with the other verbose
\* flag; the store after the call answers as the store before it did (a table or
\* signature list loaded by the call is the one a second call would load)
WithOtherVerbose ==
    decodeTransaction(artifacts, [cache |-> cachedAbi, sigs |-> cachedBytecodeSignatures],
                      tx, receipt, ~verbose).result

\* C18: for the same transaction, receipt and schema sources, decodeTransaction called
\* with the other verbose flag returns the same success flag, call list, summary and
\* gas fields: the results differ in verboseOutput only.
VerboseCarriesNoDecision ==
    Decoded => Structured(result) = Structured(WithOtherVerbose)

\* the success flag, call list and summary of a DecodeResult
Outcome(r) == [success |-> r.success, calls |-> r.calls, summary |-> r.summary]

\* decodeTransaction on the fetched transaction with a receipt available (the store
\* after the call answers as the store before it did)
WithReceipt ==
    decodeTransaction(artifacts, [cache |-> cachedAbi, sigs |-> cachedBytecodeSignatures],
                      tx, GasChoices[Len(GasChoices)].receipt, verbose).result

\* the receipt request of the resolved call failed
ReceiptFailed == Decoded /\ Len(settled) = 2 /\ receipt = Null

\* C19 as stated: in every completion order of the two requests, and when the receipt
\* request fails, the result has the success flag, call list and summary it has with a
\* receipt, and after a failed receipt request both gas-reporting fields are absent.
ReceiptFailureOmitsGasFields ==
    /\ Decoded => Outcome(result) = Outcome(WithReceipt)
    /\ ReceiptFailed => result.gasUsed.null /\ result.gasPriceGwei.null

\* C19 (amended): same outcome in every completion order and when the receipt request
\* fails; after a failed receipt request gasUsed is absent, and gasPriceGwei is the
\* transaction's own gasPrice in Gwei wherever the result with a receipt reports a gas
\* price, absent otherwise.
ReceiptIsBestEffort ==
    /\ Decoded => Outcome(result) = Outcome(WithReceipt)
    /\ ReceiptFailed =>
          /\ result.gasUsed.null
          /\ result.gasPriceGwei =
                IF WithReceipt.gasPriceGwei.null \/ tx.gasPrice.null THEN Null
                ELSE Some(formatUnits(tx.gasPrice.v, 9))

\* C19 witness: the receipt request failed before the transaction arrived, and the
\* decode succeeded with a summary and no gasUsed
ReceiptIsBestEffortWitness ==
    /\ ReceiptFailed
    /\ settled = <<"receipt", "tx">>
    /\ result.success
    /\ ~result.summary.null
    /\ result.gasUsed.null
    /\ ~WithReceipt.gasUsed.null

\* C19 witness of the other order: the receipt request failed after the transaction
\* arrived
ReceiptFailsLastWitness ==
    /\ ReceiptFailed
    /\ settled = <<"tx", "receipt">>
    /\ result.success
    /\ ~result.gasPriceGwei.null

\* the latest decodeTransaction call has ended
Ended == pc = "idle" /\ settled # <<>>

\* a failure result: success false, the message, no call list, no summary
Failure(message) == Result(FALSE, Null, Null, Null, Null, Null, Null, Some(message))

\* an exception escapes the decoding steps of the call that just ended
Escapes ==
    /\ op = "decodeTransaction"
    /\ tx # Null
    /\ decodeTransactionTry(artifacts,
                            [cache |-> cachedAbi, sigs |-> cachedBytecodeSignatures],
                            tx, receipt, verbose).kind = "throw"

EscapedMessage ==
    decodeTransactionTry(artifacts, [cache |-> cachedAbi, sigs |-> cachedBytecodeSignatures],
                         tx, receipt, verbose).message

\* C20: decodeTransaction never rejects: every call that ends has a result; when the
\* transaction fetch failed, or an exception escaped the decoding steps, the result is
\* success false with the underlying message as error, no call list and no summary.
NeverRejects ==
    Ended =>
        /\ result # Null
        /\ tx = Null => result = Failure("TransactionNotFoundError")
        /\ Escapes =>
              /\ result = Failure(EscapedMessage)
              /\ EscapedMessage # ""

\* C20 witness: the codec's exception on an entry-point transaction whose input the
\* entry-point table lacks escaped the decoding steps and became the result's error
NeverRejectsWitness ==
    /\ Ended
    /\ Escapes
    /\ ToEntryPoint
    /\ result = Failure("AbiFunctionSignatureNotFoundError")

\* C20 witness of the other case: the transaction fetch failed while the receipt
\* request was in flight
FetchFailureWitness ==
    /\ Ended
    /\ settled = <<"tx">>
    /\ tx = Null
    /\ result = Failure("TransactionNotFoundError")

(***************************************************************************)
(* Properties of the canonical signature.                                  *)
(***************************************************************************)
\* C21: the canonical signature built for a descriptor expands every tuple-typed
\* parameter, at every depth, into its parenthesized comma-joined component types
\* followed by the array suffix of the tuple type, and leaves the other types as they
\* are; the selector of KAMI721C's mintFor, whose royalties parameter is tuple[] of
\* (address,uint96), is 0x1169051d.
CanonicalSignature ==
    selCall # Null =>
        /\ selCall.sig = selCall.expected
        /\ selCall.item = KAMI_MINT_ABI[1] => selCall.sel = "0x1169051d"

\* C21 witness: the signature of a descriptor whose parameter is an array of tuples
\* holding a tuple was built
CanonicalSignatureWitness ==
    /\ selCall # Null
    /\ Len(selCall.item.inputs) = 1
    /\ selCall.item.inputs[1].type = "tuple[]"
    /\ selCall.item.inputs[1].components[1].type = "address"
    /\ Len(selCall.item.inputs[1].components) = 2
    /\ selCall.item.inputs[1].components[2].type = "tuple[][]"
    /\ selCall.sig = "f((address,(uint96)[][])[])"

\* what getContractNameFromInitCode answers for the latest input on a signature list
\* built now from the schema sources
NameFromFreshBuild ==
    getContractNameFromInitCode(artifacts, Null, contractName.initCode).name

\* C22 as stated: a bytecode-signature build is kept only if it is an improvement (it
\* holds a signature) and is otherwise recomputed on the next access, so that an
\* identification that follows a build without signatures answers from the schema
\* sources as they are now.
SignatureBuildKeptIfImproved ==
    /\ cachedBytecodeSignatures # Null => Len(cachedBytecodeSignatures.list) > 0
    /\ (Identified /\ Len(Registered) = 0) => contractName.name = NameFromFreshBuild

\* the hex digits of the latest input
IdentifiedRaw == Strip0x(contractName.initCode)

\* the candidate offsets, in hex digits (0, 20, 52 and 84 bytes)
CandidateOffsets == {0, 40, 104, 168}

\* the input sliced at offset off starts with the prefix of registered signature j
ExactAt(off, j) ==
    /\ HLen(IdentifiedRaw) > off
    /\ HLen(HDrop(IdentifiedRaw, off)) >= 2 * 128
    /\ HStartsWith(HDrop(IdentifiedRaw, off), Registered[j].prefixHex)

\* the short prefix of registered signature j occurs in the leading window of h
InWindow(h, j) ==
    HIncludes(IF HLen(h) > 16384 THEN HTake(h, 16384) ELSE h, Registered[j].shortPrefixHex)

\* the short prefix of signature j occurs in the window of the input sliced at off
InWindowAt(off, j) ==
    /\ HLen(IdentifiedRaw) > off
    /\ InWindow(HDrop(IdentifiedRaw, off), j)

SomeExact == \E off \in CandidateOffsets : \E j \in 1..Len(Registered) : ExactAt(off, j)

SomeInWindow == \E j \in 1..Len(Registered) : InWindow(IdentifiedRaw, j)

SomeInWindowAt ==
    \E off \in CandidateOffsets : \E j \in 1..Len(Registered) : InWindowAt(off, j)

\* C23: identification is pass-ordered.  When the input sliced at a candidate offset
\* starts with a registered prefix the name is that of the offset-exact pass (lowest
\* offset, then earliest signature), whatever the substring passes would match; the
\* substring pass over the whole input answers only when the exact pass found nothing
\* (earliest signature), and the per-offset substring pass only when both found nothing.
PassOrdered ==
    (Identified /\ HLen(IdentifiedRaw) >= BYTECODE_SHORT_PREFIX_LEN) =>
        /\ SomeExact =>
              \E off \in CandidateOffsets : \E j \in 1..Len(Registered) :
                 /\ ExactAt(off, j)
                 /\ contractName.name = [null |-> FALSE, name |-> Registered[j].name]
                 /\ \A o2 \in CandidateOffsets : \A j2 \in 1..Len(Registered) :
                       ExactAt(o2, j2) => (off < o2 \/ (off = o2 /\ j <= j2))
        /\ (~SomeExact /\ SomeInWindow) =>
              \E j \in 1..Len(Registered) :
                 /\ InWindow(IdentifiedRaw, j)
                 /\ contractName.name = [null |-> FALSE, name |-> Registered[j].name]
                 /\ \A j2 \in 1..(j - 1) : ~InWindow(IdentifiedRaw, j2)
        /\ (~SomeExact /\ ~SomeInWindow /\ SomeInWindowAt) =>
              \E off \in CandidateOffsets : \E j \in 1..Len(Registered) :
                 /\ InWindowAt(off, j)
                 /\ contractName.name = [null |-> FALSE, name |-> Registered[j].name]
                 /\ \A o2 \in CandidateOffsets : \A j2 \in 1..Len(Registered) :
                       InWindowAt(o2, j2) => (off < o2 \/ (off = o2 /\ j <= j2))
        /\ (~SomeExact /\ ~SomeInWindow /\ ~SomeInWindowAt) => contractName.name.null

\* C23 witness: the input holds KAMI721C's creation-code prefix after a factory address
\* and, further on, the short prefix of the earlier-registered Token; the name is the
\* offset-exact one
PassOrderedWitness ==
    /\ Identified
    /\ Len(Registered) >= 2
    /\ Registered[1].name = "Token"
    /\ InWindow(IdentifiedRaw, 1)
    /\ ~(\E off \in CandidateOffsets : ExactAt(off, 1))
    /\ \E j \in 2..Len(Registered) : ExactAt(40, j) /\ Registered[j].name = "KAMI721C"
    /\ contractName.name = [null |-> FALSE, name |-> "KAMI721C"]

\* C23 witness of the last pass: only the window of an offset-shifted slice holds a
\* registered short prefix
PerOffsetPassWitness ==
    /\ Identified
    /\ ~SomeExact
    /\ ~SomeInWindow
    /\ SomeInWindowAt
    /\ ~contractName.name.null

\* the store holds the list a build from the schema sources gives now
FreshStore ==
    /\ cachedBytecodeSignatures # Null
    /\ Registered = (IF artifacts.exists THEN allSignatures(artifacts.files) ELSE <<>>)

\* p occurs in the leading window of the latest input or of one of its offset-shifted
\* slices
InSearchedWindow(p) ==
    \/ HIncludes(IF HLen(IdentifiedRaw) > 16384 THEN HTake(IdentifiedRaw, 16384)
                 ELSE IdentifiedRaw, p)
    \/ \E off \in CandidateOffsets :
          /\ HLen(IdentifiedRaw) > off
          /\ HIncludes(IF HLen(HDrop(IdentifiedRaw, off)) > 16384
                       THEN HTake(HDrop(IdentifiedRaw, off), 16384)
                       ELSE HDrop(IdentifiedRaw, off), p)

\* the first n hex digits of code occur in a searched window (code is at least that long)
LeadingOccurs(code, n) ==
    /\ HLen(Strip0x(code)) >= n
    /\ InSearchedWindow(HTake(Strip0x(code), n))

\* a name was returned by a substring pass
NamedBySubstring == Identified /\ FreshStore /\ ~SomeExact /\ ~contractName.name.null

\* C24 as stated: a substring pass returns a name only if the 64-byte leading prefix of
\* some registered contract's runtime bytecode occurs inside a searched window.
SubstringOnlyRuntimePrefixes ==
    NamedBySubstring =>
        \E i \in 1..Len(artifacts.files) :
            /\ artifacts.files[i].valid
            /\ LeadingOccurs(artifacts.files[i].deployedBytecode, 2 * 64)

\* C24 (amended): a substring pass returns a name only if the leading 64 hex digits
\* (32 bytes) of that contract's runtime bytecode, or of its creation bytecode of at
\* least 128 bytes, occur inside a searched window.
SubstringMatchesShortPrefixes ==
    NamedBySubstring =>
        \E i \in 1..Len(artifacts.files) :
            /\ artifacts.files[i].valid
            /\ artifacts.files[i].name = contractName.name.name
            /\ \/ LeadingOccurs(artifacts.files[i].deployedBytecode, BYTECODE_SHORT_PREFIX_LEN)
               \/ /\ HLen(Strip0x(artifacts.files[i].bytecode)) >= BYTECODE_SIGNATURE_LEN
                  /\ LeadingOccurs(artifacts.files[i].bytecode, BYTECODE_SHORT_PREFIX_LEN)

\* C24 witness: 63 bytes of KAMI721C's creation code, which hold nothing of its runtime
\* code, are named KAMI721C by a substring pass
SubstringMatchesShortPrefixesWitness ==
    /\ NamedBySubstring
    /\ contractName.name = [null |-> FALSE, name |-> "KAMI721C"]
    /\ \A i \in 1..Len(artifacts.files) :
          ~LeadingOccurs(artifacts.files[i].deployedBytecode, BYTECODE_SHORT_PREFIX_LEN)

(***************************************************************************)
(* C25: with several decodeTransaction requests in flight, interleaved     *)
(* only at the awaited fetch, each of the two caches is unbuilt or holds a *)
(* completely built value, and every finished request returns the call     *)
(* list and summary it would return alone on the state it started from.    *)
(***************************************************************************)
\* the cached table is a whole merged table of some directory, larger than the fallback
WholeTable(c) ==
    \E i \in 1..Len(DecodeDirs) :
        /\ c = loadMergedAbiFromArtifacts(DecodeDirs[i])
        /\ FunctionCount(c) > FALLBACK_FUNCTION_COUNT

\* the cached signature list is the whole list some directory yields
WholeSignatures(c) ==
    \E i \in 1..Len(DecodeDirs) :
        c = loadBytecodeSignatures(DecodeDirs[i], Null).cache

\* request r has run to its end on a fetched transaction
Answered(r) == inflight[r].pc = "idle" /\ inflight[r].tx # Null

\* what request r returns when it runs alone from the state it started in
AloneResult(r) ==
    decodeTransaction(inflight[r].base.dir,
                      [cache |-> inflight[r].base.cache, sigs |-> inflight[r].base.sigs],
                      inflight[r].tx, inflight[r].receipt, inflight[r].verbose).result

InterleavingIsInvisible ==
    /\ cachedAbi = Null \/ WholeTable(cachedAbi)
    /\ cachedBytecodeSignatures = Null \/ WholeSignatures(cachedBytecodeSignatures)
    /\ \A r \in 1..MaxRequests :
          Answered(r) => Outcome(inflight[r].result) = Outcome(AloneResult(r))

\* requests 1 and 2 started together on unbuilt caches; request 1 decoded against an
\* artifact's table, request 2 named a deployed contract, and both caches are built
InterleavingIsInvisibleWitness ==
    /\ Answered(1) /\ Answered(2)
    /\ inflight[2].base.cache = Null /\ inflight[2].base.sigs = Null
    /\ inflight[1].base = inflight[2].base
    /\ cachedAbi # Null /\ cachedBytecodeSignatures # Null
    /\ inflight[1].tx = ConcurrentTxs[2]
    /\ inflight[2].tx = ConcurrentTxs[1]
    /\ inflight[2].result.success
    /\ \E i \in 1..Len(inflight[2].result.calls.v) :
          inflight[2].result.calls.v[i].function = <<"deploy (", "KAMI721C", ")">>

(***************************************************************************)
(* C26: whatever the caches hold and whatever the payload, a decode the    *)
(* fallback table succeeds on also succeeds on the table getMergedAbi      *)
(* returned, with the same function name and the same argument map; so     *)
(* decodeToCallSummary never returns a result labelled 'fallback'.         *)
(***************************************************************************)
FallbackRetryNeverDecides ==
    SummaryReturned =>
        /\ FallbackAttempt.kind = "call" =>
              /\ MergedAttempt.kind = "call"
              /\ MergedAttempt.function = FallbackAttempt.function
              /\ MergedAttempt.args = FallbackAttempt.args
        /\ toCallSummary.out.res.null \/ toCallSummary.out.res.v.abiSource # "fallback"

\* the directory is gone and getMergedAbi returned the table cached from an earlier
\* directory; a payload the fallback table decodes was decoded against that table
FallbackRetryNeverDecidesWitness ==
    /\ SummaryReturned
    /\ artifacts = NoDir
    /\ cachedAbi # Null
    /\ toCallSummary.merged = cachedAbi
    /\ toCallSummary.merged # getFallbackAbi
    /\ FallbackAttempt.kind = "call"
    /\ toCallSummary.out.tried = <<"merged">>
    /\ toCallSummary.out.res = SummaryFrom(FallbackAttempt, "merged", cachedAbi)

====
